---- MODULE Spec2Model ----
(***************************************************************************)
(* File-based session store of only-context                                *)
(* (plugin/src/shared/session-store.ts) and the hooks that drive it.       *)
(*                                                                         *)
(* Every participant is an OS process; the only shared state is the        *)
(* sessions directory.  A step of the model is one file-system call of one *)
(* process together with the local computation next to it (its reads of    *)
(* Date.now() included), a tick of the wall clock, or the kill of a        *)
(* process.                                                                *)
(***************************************************************************)
EXTENDS Integers, Sequences, FiniteSets, TLC

\* ------------------------------------------------------------ constants
LOCK_TIMEOUT_MS == 5000
ClearMaxWaitMs == 5000
KnowledgeMaxWaitMs == 3000

\* The wall clock advances in steps of the lock timeout, so that a marker can
\* be younger than, exactly as old as, and older than the staleness threshold.
TickMs == LOCK_TIMEOUT_MS

\* ------------------------------------------------------------ bounds
MaxTicks == 2
MaxCalls == 3

MaxTime == MaxTicks * TickMs

Procs == {1, 2, 3}
Sessions == {"s1", "s2"}
LockNames == {"lock", "pending.lock"}

\* ------------------------------------------------------------ file names
\* The identifiers s1 and s2 stand for two session ids that agree on their
\* first eight characters.
IdText(sessionId) ==
    IF sessionId = "s1"
    THEN <<"S", "e", "s", "s", "i", "o", "n", "-", "1">>
    ELSE <<"S", "e", "s", "s", "i", "o", "n", "-", "2">>

PrefixLen == 8

\* /[^a-zA-Z0-9]/
AlphaNumeric(c) == c \notin {"-", "/", "_", "."}

\* toLowerCase()
LowerCase(c) == IF c = "S" THEN "s" ELSE c

\* sessionId.substring(0, 8).replace(/[^a-zA-Z0-9]/g, '').toLowerCase()
\*   || 'session'
prefix(text) ==
    LET head == SubSeq(text, 1, IF Len(text) < PrefixLen THEN Len(text) ELSE PrefixLen)
        kept == SelectSeq(head, AlphaNumeric)
    IN IF kept = <<>> THEN <<"s", "e", "s", "s", "i", "o", "n">>
       ELSE [i \in 1..Len(kept) |-> LowerCase(kept[i])]

DigestLen == 16

\* The characters of the ids of the model, each with a hex digit of its own.
HexOf(c) ==
    CASE c = "S" -> "1" [] c = "e" -> "2" [] c = "s" -> "3" [] c = "i" -> "4"
      [] c = "o" -> "5" [] c = "n" -> "6" [] c = "-" -> "7" [] c = "1" -> "8"
      [] c = "2" -> "9" [] c = "a" -> "a" [] c = "b" -> "b" [] c = "/" -> "c"
      [] c = "_" -> "d" [] OTHER -> "e"

\* crypto.createHash('sha256').update(sessionId).digest('hex').substring(0, 16):
\* sixteen hex digits.  Two different ids are taken to have different
\* digests: the digest of an id of at most sixteen characters is spelled
\* with the digits of its characters, filled up with zeros.
hash(text) ==
    [i \in 1..DigestLen |-> IF i <= Len(text) THEN HexOf(text[i]) ELSE "0"]

\* fault injection: the file name is the readable prefix alone
prefixOnly(text) == prefix(text)

\* fault injection: the file name is the id as it came
unsanitized(text) == text

\* `${prefix}_${hash}`
safeSessionFilename(text) == prefix(text) \o <<"_">> \o hash(text)

\* getSessionFilePath, getObservationsFilePath, getLockFilePath,
\* getPendingFilePath and getPendingLockPath append a suffix of their own to
\* safeSessionFilename(sessionId): two ids name the same five files exactly
\* when their safe file names are equal.  The files are indexed by one id
\* for each safe file name.
FileKeys ==
    [sessionId \in Sessions |->
        CHOOSE s \in Sessions :
            safeSessionFilename(IdText(s)) = safeSessionFilename(IdText(sessionId))]

FileKey(sessionId) == FileKeys[sessionId]

VARIABLES
    now,      \* Date.now(), in ms
    meta,     \* meta[s]: the file <safe_id>.json
    log,      \* log[s]: the file <safe_id>.observations.jsonl
    lock,     \* lock[s][n]: the marker files <safe_id>.lock, <safe_id>.pending.lock
    pending,  \* pending[s]: the file <safe_id>.pending
    tmp,      \* tmp[p]: the temp file of p's current atomicWriteSync
    pc,       \* pc[p]: where process p stands
    loc,      \* loc[p]: the local variables of process p's current call
    ncalls,   \* number of calls begun so far (bounds the model)
    hist      \* history of the run, read only by the properties

fsVars == <<meta, log, lock, pending, tmp>>
vars == <<now, meta, log, lock, pending, tmp, pc, loc, ncalls, hist>>

\* ------------------------------------------------------------ files
\* A file is absent (NoFile) or present with a content and a modification time
\* (0 for the files whose modification time nothing reads: counter, temp).
NoFile == <<>>
File(c, t) == <<[c |-> c, mtime |-> t]>>
Exists(f) == f # NoFile
Content(f) == f[1].c
Mtime(f) == f[1].mtime

\* The observation log is a sequence of written pieces.  JSON.stringify(obs)
\* + '\n' reaches the file as a first piece, then the rest and the newline.
NL == [o |-> 0, k |-> 0]
FirstPiece(o) == <<[o |-> o, k |-> 1]>>
RestPiece(o) == <<[o |-> o, k |-> 2], NL>>

RECURSIVE Split(_, _, _)
Split(content, cur, i) ==
    IF i > Len(content) THEN <<cur>>
    ELSE IF content[i] = NL THEN <<cur>> \o Split(content, <<>>, i + 1)
    ELSE Split(content, Append(cur, content[i]), i + 1)

\* JSON.parse(line) succeeds and the required fields are there
ParsesAsObservation(line) ==
    /\ Len(line) = 2
    /\ line[1].k = 1
    /\ line[2].k = 2
    /\ line[1].o = line[2].o

\* fault injection: a line that does not parse makes the whole read fail
ReadObservationsStrict(f) ==
    IF ~Exists(f) THEN <<>>
    ELSE LET lines == SelectSeq(Split(Content(f), <<>>, 1), LAMBDA l : l # <<>>)
         IN IF \E i \in 1..Len(lines) : ~ParsesAsObservation(lines[i])
            THEN <<>>
            ELSE [i \in 1..Len(lines) |-> lines[i][1].o]

\* fault injection: the lines are returned last first
ReadObservationsReversed(f) ==
    IF ~Exists(f) THEN <<>>
    ELSE LET lines == SelectSeq(Split(Content(f), <<>>, 1), LAMBDA l : l # <<>>)
             good == SelectSeq(lines, ParsesAsObservation)
         IN [i \in 1..Len(good) |-> good[Len(good) + 1 - i][1].o]

\* readObservations: the ids of the observations read from a log file
ReadObservationsOf(f) ==
    IF ~Exists(f) THEN <<>>
    ELSE LET lines == SelectSeq(Split(Content(f), <<>>, 1), LAMBDA l : l # <<>>)
             good == SelectSeq(lines, ParsesAsObservation)
         IN [i \in 1..Len(good) |-> good[i][1].o]

readObservations(s) == ReadObservationsOf(log[FileKey(s)])

\* readSessionMetadata: <<>> is null, <<m>> the record
readSessionMetadata(s) ==
    IF ~Exists(meta[FileKey(s)]) THEN <<>>
    ELSE Content(meta[FileKey(s)])

\* ------------------------------------------------------------ processes
\* no time: an absent endTime, a startTime not yet taken
NoTime == -1

NoLocals ==
    [op |-> "none", sid |-> "s1", arg |-> 0,
     pre |-> NoFile,   \* the metadata file when endSession was called (history)
     startT |-> NoTime,\* startTime of the wait loop, then of the lock acquisition loop
     got |-> FALSE,    \* gotLock
     kind |-> "",      \* endType
     md |-> <<>>,      \* metadata
     cnt |-> 0,        \* the count to write to the counter file
     seen |-> NoFile,  \* the counter file as the wait loop last read it
     expired |-> FALSE,\* the wait loop ran for its maxWaitMs
     obs |-> <<>>,     \* observations
     threw |-> FALSE,  \* appendFileSync of this call threw
     sweep |-> <<>>,   \* locals of the cleanupStaleSessions that called, if any
     files |-> <<>>,   \* filesModified, in insertion order
     commands |-> 0,   \* commandsRun
     errors |-> 0,     \* errorsEncountered
     ret |-> <<>>]     \* the value returned

Idle(p) == pc[p] = "idle"
Running(p) == pc[p] \notin {"idle", "dead"}

Goto(p, l) == pc' = [pc EXCEPT ![p] = l]

\* The concurrent specifications begin at most MaxCalls calls.
Budget == ncalls < MaxCalls

\* A call begins: the locals are fresh.
Begin(p, op, s, arg, l) ==
    /\ pc[p] = "idle"
    /\ ncalls' = ncalls + 1
    /\ pc' = [pc EXCEPT ![p] = l]
    /\ loc' = [loc EXCEPT ![p] = [NoLocals EXCEPT !.op = op, !.sid = s, !.arg = arg]]

\* A call returns r: only the operation, its arguments and the result stay.
Return(p, r) ==
    /\ pc' = [pc EXCEPT ![p] = "idle"]
    /\ loc' = [loc EXCEPT ![p] = [NoLocals EXCEPT !.op = loc[p].op, !.sid = loc[p].sid,
                                                  !.arg = loc[p].arg, !.kind = loc[p].kind,
                                                  !.pre = loc[p].pre,
                                                  !.threw = loc[p].threw, !.ret = r]]

\* ------------------------------------------------------------ history
NoHistory ==
    [overheld |-> FALSE,   \* some lock marker has become older than LOCK_TIMEOUT_MS
     okObs |-> {},         \* observations whose addObservation returned true
     before |-> {},        \* <<a, b>>: a's call had returned true when b's began
     failObs |-> {},       \* observations whose addObservation returned false
     calls |-> {},         \* <<p, k>>: job p called markBackgroundJobCompleted at k
     skipped |-> FALSE,    \* some counter update gave up on the pending lock
     underflow |-> FALSE,  \* some decrement found the counter at zero
     started |-> 0,        \* markBackgroundJobStarted calls begun
     completed |-> 0,      \* markBackgroundJobCompleted calls begun
     passed |-> {},        \* records handed to writeSessionMetadata
     ended |-> FALSE]      \* some stored status has been 'completed' or 'stopped'

\* ------------------------------------------------------------ clock
\* Date.now() advances.
Tick ==
    /\ now < MaxTime
    /\ now' = now + TickMs
    /\ hist' = [hist EXCEPT !.overheld =
                   @ \/ \E s \in Sessions, n \in LockNames :
                           /\ Exists(lock[s][n])
                           /\ now' - Mtime(lock[s][n]) > LOCK_TIMEOUT_MS]
    /\ UNCHANGED <<fsVars, pc, loc, ncalls>>

\* The host kills a process in the middle of a call; what it wrote stays.
Kill(p) ==
    /\ Running(p)
    /\ pc' = [pc EXCEPT ![p] = "dead"]
    /\ UNCHANGED <<now, fsVars, loc, ncalls, hist>>

\* ------------------------------------------------------------ Lock Manager
\* acquireLock and acquirePendingLock are the same loop on two marker files.
\* fault injection: the counter updates take the observation lock
OneLock(op) == "lock"

LockOf(op) ==
    IF op \in {"markBackgroundJobStarted", "markBackgroundJobCompleted"}
    THEN "pending.lock" ELSE "lock"

\* fault injection: the acquisition loop has no time limit
NeverExpires(elapsed) == FALSE

\* while (Date.now() - startTime < LOCK_TIMEOUT_MS)
LoopExpired(elapsed) == ~(elapsed < LOCK_TIMEOUT_MS)

\* fault injection: the marker is opened without O_EXCL
OpenNeverFails(f) == FALSE

\* openSync(lockPath, O_CREAT | O_EXCL | O_WRONLY) throws EEXIST
OpenExclFails(f) == Exists(f)

\* fault injection: every marker found counts as stale
AlwaysStale(age) == TRUE

\* fault injection: no marker ever counts as stale
NeverStale(age) == FALSE

\* if (Date.now() - stat.mtimeMs > LOCK_TIMEOUT_MS)
IsStale(age) == age > LOCK_TIMEOUT_MS

\* where a call goes on once it holds its lock
Entry(op) ==
    CASE op = "addObservation" -> "app_w1"
      [] op = "markBackgroundJobStarted" -> "cnt_read"
      [] op = "markBackgroundJobCompleted" -> "cnt_read"
      [] OTHER -> "clr_meta"

\* const startTime = Date.now(), taken in the step of the first loop test
StartTime(p) == IF loc[p].startT = NoTime THEN now ELSE loc[p].startT

\* One turn of the acquisition loop: the loop test and the exclusive create.
AcqOpen(p) ==
    /\ pc[p] = "acq_open"
    /\ LET s == FileKey(loc[p].sid)
           op == loc[p].op
           n == LockOf(op)
       IN IF LoopExpired(now - StartTime(p))
          THEN \* return false
               /\ UNCHANGED lock
               /\ IF op = "clearSessionFile"
                  THEN /\ Goto(p, "clr_meta")
                       /\ loc' = [loc EXCEPT ![p].got = FALSE, ![p].startT = NoTime]
                       /\ UNCHANGED hist
                  ELSE IF op = "addObservation"
                  THEN /\ Return(p, <<FALSE>>)
                       /\ hist' = [hist EXCEPT !.failObs = @ \cup {loc[p].arg}]
                  ELSE /\ Return(p, <<>>)
                       /\ hist' = [hist EXCEPT !.skipped = TRUE]
          ELSE IF OpenExclFails(lock[s][n])
          THEN /\ Goto(p, "acq_stat")
               /\ loc' = [loc EXCEPT ![p].startT = StartTime(p)]
               /\ UNCHANGED <<lock, hist>>
          ELSE \* the marker is created; return true
               /\ lock' = [lock EXCEPT ![s][n] = File(<<p>>, now)]
               /\ Goto(p, Entry(op))
               /\ loc' = [loc EXCEPT ![p].got = TRUE, ![p].startT = NoTime]
               /\ UNCHANGED hist
    /\ UNCHANGED <<now, meta, log, pending, tmp, ncalls>>

\* EEXIST: statSync of the marker, then the staleness test; a fresh marker
\* means a busy wait of LOCK_RETRY_MS (below the clock's resolution) and the
\* next turn of the loop.
AcqStat(p) ==
    /\ pc[p] = "acq_stat"
    /\ LET f == lock[FileKey(loc[p].sid)][LockOf(loc[p].op)]
       IN IF Exists(f) /\ IsStale(now - Mtime(f))
          THEN Goto(p, "acq_unlink")
          ELSE Goto(p, "acq_open")
    /\ UNCHANGED <<now, fsVars, loc, ncalls, hist>>

\* unlinkSync of the marker found stale (a missing file is ignored)
AcqUnlink(p) ==
    /\ pc[p] = "acq_unlink"
    /\ lock' = [lock EXCEPT ![FileKey(loc[p].sid)][LockOf(loc[p].op)] = NoFile]
    /\ Goto(p, "acq_open")
    /\ UNCHANGED <<now, meta, log, pending, tmp, loc, ncalls, hist>>

\* fault injection: the marker is left where it is
LockKept(s, n) == lock

\* releaseLock / releasePendingLock: unlinkSync, errors ignored
Released(s, n) == [lock EXCEPT ![FileKey(s)][n] = NoFile]

\* ------------------------------------------------------------ Observation Log
\* appendFileSync writes after the current end of the file, creating it.
Appended(f, pieces) ==
    File((IF Exists(f) THEN Content(f) ELSE <<>>) \o pieces, now)

AppendFirst(p) ==
    /\ pc[p] = "app_w1"
    /\ log' = [log EXCEPT ![FileKey(loc[p].sid)] = Appended(@, FirstPiece(loc[p].arg))]
    /\ Goto(p, "app_w2")
    /\ UNCHANGED <<now, meta, lock, pending, tmp, loc, ncalls, hist>>

AppendRest(p) ==
    /\ pc[p] = "app_w2"
    /\ log' = [log EXCEPT ![FileKey(loc[p].sid)] =
                  IF Exists(@) THEN Appended(@, RestPiece(loc[p].arg)) ELSE @]
    /\ Goto(p, "app_rel")
    /\ UNCHANGED <<now, meta, lock, pending, tmp, loc, ncalls, hist>>

\* finally { releaseLock(sessionId) }; return true
AppendRelease(p) ==
    /\ pc[p] = "app_rel"
    /\ lock' = Released(loc[p].sid, "lock")
    /\ Return(p, <<TRUE>>)
    /\ hist' = [hist EXCEPT !.okObs = @ \cup {loc[p].arg}]
    /\ UNCHANGED <<now, meta, log, pending, tmp, ncalls>>

\* fs.appendFileSync throws (disk full, permissions, the path is a directory),
\* before anything was written or after a first part of the line
AppendThrows(p) ==
    /\ pc[p] \in {"app_w1", "app_w2"}
    /\ Goto(p, "app_catch")
    /\ loc' = [loc EXCEPT ![p].threw = TRUE]
    /\ UNCHANGED <<now, fsVars, ncalls, hist>>

\* catch (error) { return false } finally { releaseLock(sessionId) }
AppendCatch(p) ==
    /\ pc[p] = "app_catch"
    /\ lock' = Released(loc[p].sid, "lock")
    /\ Return(p, <<FALSE>>)
    /\ hist' = [hist EXCEPT !.failObs = @ \cup {loc[p].arg}]
    /\ UNCHANGED <<now, meta, log, pending, tmp, ncalls>>

\* addObservation(sessionId, observation); the observation's id is fresh
CallAddObservation(p, s) ==
    /\ Budget
    /\ Begin(p, "addObservation", s, ncalls + 1, "add_read")
    /\ UNCHANGED <<now, fsVars, hist>>

\* fault injection: only a missing session is refused
RefusedIfAbsent(md) == md = <<>>

\* if (!metadata || metadata.status !== 'active') return false
Refused(md) == md = <<>> \/ md[1].status # "active"

AddRead(p) ==
    /\ pc[p] = "add_read"
    /\ LET md == readSessionMetadata(loc[p].sid)
       IN IF Refused(md)
          THEN /\ Return(p, <<FALSE>>)
               /\ hist' = [hist EXCEPT !.failObs = @ \cup {loc[p].arg}]
          ELSE /\ Goto(p, "acq_open")
               /\ UNCHANGED <<loc, hist>>
    /\ UNCHANGED <<now, fsVars, ncalls>>

\* ------------------------------------------------------------ Pending Job Counter
\* fault injection: the wait loops read the counter without the conservative flag
getPendingJobCountLax(f, conservative) ==
    IF ~Exists(f) THEN 0
    ELSE IF Content(f) = <<>> THEN 0
    ELSE Content(f)[1]

\* getPendingJobCount(pendingPath, conservative): a file caught between its
\* truncation and its write is empty and parseInt gives NaN
getPendingJobCount(f, conservative) ==
    IF ~Exists(f) THEN 0
    ELSE IF Content(f) = <<>> THEN (IF conservative THEN 1 ELSE 0)
    ELSE Content(f)[1]

\* fault injection: the file is removed only when the count read is below 1
LastJobBelowOne(currentCount) == currentCount < 1

\* if (currentCount <= 1): last job done, remove file
LastJob(currentCount) == currentCount <= 1

CallMarkStarted(p, s) ==
    /\ Budget
    /\ Begin(p, "markBackgroundJobStarted", s, 0, "acq_open")
    /\ hist' = [hist EXCEPT !.started = @ + 1]
    /\ UNCHANGED <<now, fsVars>>

CallMarkCompleted(p, s) ==
    /\ Budget
    /\ Begin(p, "markBackgroundJobCompleted", s, 0, "acq_open")
    /\ hist' = [hist EXCEPT !.completed = @ + 1]
    /\ UNCHANGED <<now, fsVars>>

\* const currentCount = getPendingJobCount(pendingPath), under the pending lock
CntRead(p) ==
    /\ pc[p] = "cnt_read"
    /\ LET currentCount == getPendingJobCount(pending[FileKey(loc[p].sid)], FALSE)
       IN IF loc[p].op = "markBackgroundJobStarted"
          THEN /\ Goto(p, "cnt_trunc")
               /\ loc' = [loc EXCEPT ![p].cnt = currentCount + 1]
               /\ UNCHANGED hist
          ELSE /\ hist' = [hist EXCEPT !.underflow = @ \/ currentCount <= 0]
               /\ IF LastJob(currentCount)
                  THEN Goto(p, "cnt_unlink") /\ UNCHANGED loc
                  ELSE /\ Goto(p, "cnt_trunc")
                       /\ loc' = [loc EXCEPT ![p].cnt = currentCount - 1]
    /\ UNCHANGED <<now, fsVars, ncalls>>

\* writeFileSync(pendingPath, ...) opens the file with O_CREAT | O_TRUNC ...
CntTrunc(p) ==
    /\ pc[p] = "cnt_trunc"
    /\ pending' = [pending EXCEPT ![FileKey(loc[p].sid)] = File(<<>>, 0)]
    /\ Goto(p, "cnt_write")
    /\ UNCHANGED <<now, meta, log, lock, tmp, loc, ncalls, hist>>

\* ... and then writes the number (into nothing if the file was unlinked since)
CntWrite(p) ==
    /\ pc[p] = "cnt_write"
    /\ pending' = [pending EXCEPT ![FileKey(loc[p].sid)] =
                      IF Exists(@) THEN File(<<loc[p].cnt>>, 0) ELSE @]
    /\ Goto(p, "cnt_rel")
    /\ UNCHANGED <<now, meta, log, lock, tmp, loc, ncalls, hist>>

\* if (fs.existsSync(pendingPath)) fs.unlinkSync(pendingPath)
CntUnlink(p) ==
    /\ pc[p] = "cnt_unlink"
    /\ pending' = [pending EXCEPT ![FileKey(loc[p].sid)] = NoFile]
    /\ Goto(p, "cnt_rel")
    /\ UNCHANGED <<now, meta, log, lock, tmp, loc, ncalls, hist>>

\* finally { releasePendingLock(sessionId) }
CntRelease(p) ==
    /\ pc[p] = "cnt_rel"
    /\ lock' = Released(loc[p].sid, "pending.lock")
    /\ Return(p, <<>>)
    /\ UNCHANGED <<now, meta, log, pending, tmp, ncalls, hist>>

\* ------------------------------------------------------------ the barrier
\* fault injection: the wait loop has no time limit
NoMaxWait(op) == 2 * (MaxTime + TickMs)

MaxWaitOf(op) ==
    IF op = "clearSessionFile" THEN ClearMaxWaitMs ELSE KnowledgeMaxWaitMs

\* fault injection: the wait loop also stops at a count of one
WaitOverAtOne(count) == count <= 1

\* if (count <= 0) break
WaitOver(count) == count <= 0

\* One turn of the wait loop of clearSessionFile and getPreCompactKnowledge:
\* while (Date.now() - startTime < maxWaitMs) {
\*   const count = getPendingJobCount(pendingPath, true); if (count <= 0) break;
\*   busy wait 100 ms }
WaitPending(p) ==
    /\ pc[p] = "wait"
    /\ LET op == loc[p].op
           f == pending[FileKey(loc[p].sid)]
           after == IF op = "clearSessionFile" THEN "acq_open" ELSE "gpk_read"
       IN IF ~(now - StartTime(p) < MaxWaitOf(op))
          THEN /\ Goto(p, after)
               /\ loc' = [loc EXCEPT ![p].startT = NoTime, ![p].expired = TRUE]
          ELSE IF WaitOver(getPendingJobCount(f, TRUE))
          THEN /\ Goto(p, after)
               /\ loc' = [loc EXCEPT ![p].startT = NoTime, ![p].seen = f]
          ELSE /\ loc' = [loc EXCEPT ![p].startT = StartTime(p), ![p].seen = f]
               /\ UNCHANGED pc
    /\ UNCHANGED <<now, fsVars, ncalls, hist>>

CallGetPreCompactKnowledge(p, s) ==
    /\ Budget
    /\ Begin(p, "getPreCompactKnowledge", s, 0, "wait")
    /\ UNCHANGED <<now, fsVars, hist>>

\* const metadata = readSessionMetadata(sessionId);
\* return metadata?.preCompactKnowledge || []
GpkRead(p) ==
    /\ pc[p] = "gpk_read"
    /\ LET md == readSessionMetadata(loc[p].sid)
       IN Return(p, <<IF md = <<>> THEN <<>> ELSE md[1].preCompactKnowledge>>)
    /\ UNCHANGED <<now, fsVars, ncalls, hist>>

\* ------------------------------------------------------------ clearSessionFile
CallClearSessionFile(p, s) ==
    /\ Budget
    /\ Begin(p, "clearSessionFile", s, 0, "wait")
    /\ UNCHANGED <<now, fsVars, hist>>

\* for (const filePath of [metaPath, obsPath, pendingPath, pendingLockPath])
\*   if (fs.existsSync(filePath)) fs.unlinkSync(filePath)
ClrMeta(p) ==
    /\ pc[p] = "clr_meta"
    /\ meta' = [meta EXCEPT ![FileKey(loc[p].sid)] = NoFile]
    /\ Goto(p, "clr_obs")
    /\ UNCHANGED <<now, log, lock, pending, tmp, loc, ncalls, hist>>

ClrObs(p) ==
    /\ pc[p] = "clr_obs"
    /\ log' = [log EXCEPT ![FileKey(loc[p].sid)] = NoFile]
    /\ Goto(p, "clr_pending")
    /\ UNCHANGED <<now, meta, lock, pending, tmp, loc, ncalls, hist>>

ClrPending(p) ==
    /\ pc[p] = "clr_pending"
    /\ pending' = [pending EXCEPT ![FileKey(loc[p].sid)] = NoFile]
    /\ Goto(p, "clr_plock")
    /\ UNCHANGED <<now, meta, log, lock, tmp, loc, ncalls, hist>>

\* fault injection: the delete loop leaves the pending lock marker
ClrPendingLockKept(p) ==
    /\ pc[p] = "clr_plock"
    /\ Goto(p, "clr_fin")
    /\ UNCHANGED <<now, fsVars, loc, ncalls, hist>>

ClrPendingLock(p) ==
    /\ pc[p] = "clr_plock"
    /\ lock' = Released(loc[p].sid, "pending.lock")
    /\ Goto(p, "clr_fin")
    /\ UNCHANGED <<now, meta, log, pending, tmp, loc, ncalls, hist>>

\* finally: releaseLock if gotLock, else unlink the lock file if it exists
\* clearSessionFile then returns, to the loop of cleanupStaleSessions when
\* that was its caller
ClrFinally(p) ==
    /\ pc[p] = "clr_fin"
    /\ lock' = Released(loc[p].sid, "lock")
    /\ IF loc[p].sweep = <<>>
       THEN Return(p, <<>>)
       ELSE /\ Goto(p, "cs_read")
            /\ loc' = [loc EXCEPT ![p] = [NoLocals EXCEPT
                                            !.op = "cleanupStaleSessions",
                                            !.arg = loc[p].arg,
                                            !.sweep = loc[p].sweep]]
    /\ UNCHANGED <<now, meta, log, pending, tmp, ncalls, hist>>

\* ------------------------------------------------------------ Metadata
\* the record startSession builds; project and projectPath are numbered,
\* summary 0 is an absent summary
\* fault injection: the record is built for another project
OtherProjectMetadata(s, project) ==
    [id |-> s, project |-> project + 1, projectPath |-> project + 1,
     startTime |-> now, endTime |-> NoTime, durationMinutes |-> NoTime,
     status |-> "active", summary |-> 0, lastUpdated |-> now,
     preCompactKnowledge |-> <<>>]

NewMetadata(s, project) ==
    [id |-> s, project |-> project, projectPath |-> project,
     startTime |-> now, endTime |-> NoTime, durationMinutes |-> NoTime,
     status |-> "active", summary |-> 0, lastUpdated |-> now,
     preCompactKnowledge |-> <<>>]

\* The observations are numbered; the number gives the record's type, and
\* the file_edit with number o edits the path o.  No record has isError.
ObsType(o) ==
    CASE o % 3 = 1 -> "file_edit"
      [] o % 3 = 2 -> "command"
      [] OTHER -> "error"

\* if (obs.type === 'file_edit') { if (filePath) filesModified.add(filePath) }
FilesModified(observations) ==
    {observations[i] : i \in {j \in 1..Len(observations) :
                                  ObsType(observations[j]) = "file_edit"}}

\* else if (obs.type === 'command') commandsRun++
CommandsRun(observations) ==
    Cardinality({i \in 1..Len(observations) : ObsType(observations[i]) = "command"})

\* if (obs.type === 'error' || obs.isError) errorsEncountered++
ErrorsEncountered(observations) ==
    Cardinality({i \in 1..Len(observations) : ObsType(observations[i]) = "error"})

\* the Session readSession returns for a metadata record and the observations
SessionOf(md, observations) ==
    [id |-> md.id, project |-> md.project, projectPath |-> md.projectPath,
     startTime |-> md.startTime, endTime |-> md.endTime,
     durationMinutes |-> md.durationMinutes, status |-> md.status,
     summary |-> md.summary, observations |-> observations,
     filesModified |-> FilesModified(observations),
     commandsRun |-> CommandsRun(observations),
     errorsEncountered |-> ErrorsEncountered(observations)]

\* fault injection: the minutes are cut off, not rounded
DurationTruncated(start, end) == (end - start) \div 60000

\* Math.round((end.getTime() - start.getTime()) / 60000)
DurationMinutes(start, end) == (end - start + 30000) \div 60000

\* fault injection: the data goes straight into the target file, which is empty
\* between its truncation and the write
TruncatedInPlace(s) == [meta EXCEPT ![FileKey(s)] = File(<<>>, now)]

\* atomicWriteSync writes to a sibling `${filePath}.<random>.tmp`: the target
\* file stays as it is while the data is written
TargetWhileWriting(s) == meta

\* writeSessionMetadata: metadata.lastUpdated = new Date(), then
\* atomicWriteSync opens the temp file (created empty) ...
TmpCreate(p) ==
    /\ pc[p] = "w_tmp"
    /\ LET s == loc[p].sid
           m == IF loc[p].op = "startSession"
                THEN NewMetadata(s, loc[p].arg) ELSE loc[p].md[1]
           r == [m EXCEPT !.lastUpdated = now]
       IN /\ loc' = [loc EXCEPT ![p].md = <<r>>]
          /\ hist' = [hist EXCEPT !.passed = @ \cup {r}]
          /\ meta' = TargetWhileWriting(s)
    /\ tmp' = [tmp EXCEPT ![p] = File(<<>>, 0)]
    /\ Goto(p, "w_data")
    /\ UNCHANGED <<now, log, lock, pending, ncalls>>

\* ... writes JSON.stringify(metadata) into it ...
TmpWrite(p) ==
    /\ pc[p] = "w_data"
    /\ tmp' = [tmp EXCEPT ![p] = File(loc[p].md, now)]
    /\ Goto(p, "w_ren")
    /\ UNCHANGED <<now, meta, log, lock, pending, loc, ncalls, hist>>

\* fault injection: the early return for an ended session is gone
NeverEnded(md) == FALSE

\* if (metadata.status !== 'active'): don't re-end an already ended session
AlreadyEnded(md) == md.status # "active"

\* ... and renames it onto the metadata file.  startSession and the update
\* operations return; endSession goes on to readSession.
Rename(p) ==
    /\ pc[p] = "w_ren"
    /\ meta' = [meta EXCEPT ![FileKey(loc[p].sid)] = tmp[p]]
    /\ tmp' = [tmp EXCEPT ![p] = NoFile]
    /\ hist' = [hist EXCEPT !.ended = @ \/ loc[p].md[1].status # "active"]
    /\ IF loc[p].op = "endSession"
       THEN Goto(p, "rs_meta") /\ UNCHANGED loc
       ELSE IF loc[p].op = "startSession"
       THEN Return(p, <<SessionOf(loc[p].md[1], <<>>)>>)
       ELSE Return(p, <<TRUE>>)
    /\ UNCHANGED <<now, log, lock, pending, ncalls>>

\* startSession(sessionId, project, projectPath)
CallStartSession(p, s, project) ==
    /\ Budget
    /\ Begin(p, "startSession", s, project, "w_tmp")
    /\ UNCHANGED <<now, fsVars, hist>>

\* endSession(sessionId, endType)
CallEndSession(p, s, endType) ==
    /\ Budget
    /\ pc[p] = "idle"
    /\ ncalls' = ncalls + 1
    /\ pc' = [pc EXCEPT ![p] = "end_read"]
    /\ loc' = [loc EXCEPT ![p] = [NoLocals EXCEPT !.op = "endSession", !.sid = s,
                                                  !.kind = endType, !.pre = meta[FileKey(s)]]]
    /\ UNCHANGED <<now, fsVars, hist>>

\* const metadata = readSessionMetadata(sessionId) and what endSession makes
\* of it
EndRead(p) ==
    /\ pc[p] = "end_read"
    /\ LET md == readSessionMetadata(loc[p].sid)
       IN IF md = <<>>
          THEN Return(p, <<>>)
          ELSE IF AlreadyEnded(md[1])
          THEN Goto(p, "rs_meta") /\ UNCHANGED loc
          ELSE /\ Goto(p, "w_tmp")
               /\ loc' = [loc EXCEPT ![p].md =
                     <<[md[1] EXCEPT
                          !.endTime = now,
                          !.status = IF loc[p].kind = "stop" THEN "stopped"
                                     ELSE "completed",
                          !.durationMinutes = DurationMinutes(md[1].startTime, now)]>>]
    /\ UNCHANGED <<now, fsVars, ncalls, hist>>

\* updateSessionSummary(sessionId, summary)
CallUpdateSessionSummary(p, s, summary) ==
    /\ Budget
    /\ Begin(p, "updateSessionSummary", s, summary, "upd_read")
    /\ UNCHANGED <<now, fsVars, hist>>

\* updatePreCompactKnowledge(sessionId, [path]); the path is fresh
CallUpdatePreCompactKnowledge(p, s) ==
    /\ Budget
    /\ Begin(p, "updatePreCompactKnowledge", s, ncalls + 1, "upd_read")
    /\ UNCHANGED <<now, fsVars, hist>>

\* const metadata = readSessionMetadata(sessionId) and the change the two
\* update operations make to it
UpdRead(p) ==
    /\ pc[p] = "upd_read"
    /\ LET md == readSessionMetadata(loc[p].sid)
       IN IF md = <<>>
          THEN Return(p, <<FALSE>>)
          ELSE /\ Goto(p, "w_tmp")
               /\ loc' = [loc EXCEPT ![p].md =
                     IF loc[p].op = "updateSessionSummary"
                     THEN <<[md[1] EXCEPT !.summary = loc[p].arg]>>
                     ELSE <<[md[1] EXCEPT !.preCompactKnowledge =
                                             Append(@, loc[p].arg)]>>]
    /\ UNCHANGED <<now, fsVars, ncalls, hist>>

\* readSession(sessionId): the metadata, then the observations
CallReadSession(p, s) ==
    /\ Budget
    /\ Begin(p, "readSession", s, 0, "rs_meta")
    /\ UNCHANGED <<now, fsVars, hist>>

ReadSessionMeta(p) ==
    /\ pc[p] = "rs_meta"
    /\ LET md == readSessionMetadata(loc[p].sid)
       IN IF md = <<>>
          THEN Return(p, <<>>)
          ELSE Goto(p, "rs_obs") /\ loc' = [loc EXCEPT ![p].md = md]
    /\ UNCHANGED <<now, fsVars, ncalls, hist>>

ReadSessionObs(p) ==
    /\ pc[p] = "rs_obs"
    /\ Return(p, <<SessionOf(loc[p].md[1], readObservations(loc[p].sid))>>)
    /\ UNCHANGED <<now, fsVars, ncalls, hist>>

\* ------------------------------------------------------------ initial states
EmptyDir ==
    /\ now = 0
    /\ meta = [s \in Sessions |-> NoFile]
    /\ log = [s \in Sessions |-> NoFile]
    /\ lock = [s \in Sessions |-> [n \in LockNames |-> NoFile]]
    /\ pending = [s \in Sessions |-> NoFile]
    /\ tmp = [p \in Procs |-> NoFile]
    /\ pc = [p \in Procs |-> "idle"]
    /\ loc = [p \in Procs |-> NoLocals]
    /\ ncalls = 0
    /\ hist = NoHistory

\* startSession("s1", "p1", "p1") has returned in an empty directory
Started ==
    /\ now = 0
    /\ meta = [s \in Sessions |->
                 IF s = "s1" THEN File(<<NewMetadata("s1", 1)>>, 0) ELSE NoFile]
    /\ log = [s \in Sessions |-> NoFile]
    /\ lock = [s \in Sessions |-> [n \in LockNames |-> NoFile]]
    /\ pending = [s \in Sessions |-> NoFile]
    /\ tmp = [p \in Procs |-> NoFile]
    /\ pc = [p \in Procs |-> "idle"]
    /\ loc = [p \in Procs |-> NoLocals]
    /\ ncalls = 0
    /\ hist = [NoHistory EXCEPT !.passed = {NewMetadata("s1", 1)}]

\* ------------------------------------------------------------ SpecAppend
\* Concurrent addObservation calls on the started session s1.
Appenders == {1, 2}

NextAppend ==
    \/ Tick
    \/ \E p \in Appenders :
          \/ CallAddObservation(p, "s1")
          \/ AddRead(p)
          \/ AcqOpen(p)
          \/ AcqStat(p)
          \/ AcqUnlink(p)
          \/ AppendFirst(p)
          \/ AppendRest(p)
          \/ AppendRelease(p)

SpecAppend == Started /\ [][NextAppend]_vars

AllIdle == \A p \in Procs : Idle(p)

Range(q) == {q[i] : i \in 1..Len(q)}

\* The observations read back are exactly the given set, each once.
ReadsExactly(s, ids) ==
    LET got == readObservations(s)
    IN /\ Range(got) = ids
       /\ Len(got) = Cardinality(ids)

\* C1 as stated: once every addObservation call has returned, and each
\* returned true, readSession returns exactly those observations.
C1_AllAppendsRead ==
    (AllIdle /\ hist.failObs = {}) => ReadsExactly("s1", hist.okObs)

\* C1 amended: in the runs in which no lock marker has grown older than
\* LOCK_TIMEOUT_MS, once every addObservation call has returned, and each
\* returned true, readSession returns exactly those observations, each once
\* and whole.
C1_AllAppendsReadTimely ==
    (AllIdle /\ hist.failObs = {} /\ ~hist.overheld) => ReadsExactly("s1", hist.okObs)

\* Two calls ran at the same time, the later one's record reached the log
\* first, and all observations are read back.
C1_Witness ==
    /\ AllIdle
    /\ ~hist.overheld
    /\ hist.okObs = {1, 2, 3}
    /\ hist.failObs = {}
    /\ ReadsExactly("s1", hist.okObs)
    /\ readObservations("s1") = <<2, 1, 3>>

\* ------------------------------------------------------------ SpecJobs
\* Background-job bookkeeping and the paths that wait for it, on the started
\* session s1: counter updates, getPreCompactKnowledge and clearSessionFile.
\* Processes 1 and 2 are pre-compact hooks and their background jobs,
\* process 3 is the session-end hook or the reaper.
Jobs == {1, 2}
Enders == {3}

NextJobs ==
    \/ Tick
    \/ \E p \in Jobs :
          \/ CallMarkStarted(p, "s1")
          \/ CallMarkCompleted(p, "s1")
    \/ \E p \in Enders :
          \/ CallClearSessionFile(p, "s1")
          \/ CallGetPreCompactKnowledge(p, "s1")
    \/ \E p \in Procs :
          \/ WaitPending(p)
          \/ GpkRead(p)
          \/ AcqOpen(p)
          \/ AcqStat(p)
          \/ AcqUnlink(p)
          \/ CntRead(p)
          \/ CntTrunc(p)
          \/ CntWrite(p)
          \/ CntUnlink(p)
          \/ CntRelease(p)
          \/ ClrMeta(p)
          \/ ClrObs(p)
          \/ ClrPending(p)
          \/ ClrPendingLock(p)
          \/ ClrFinally(p)

SpecJobs == Started /\ [][NextJobs]_vars

\* the processes between a successful acquire of lock n of session s and
\* the matching release
Holders(s, n) ==
    {p \in Procs : /\ Running(p)
                   /\ pc[p] \notin {"add_read", "wait", "acq_open", "acq_stat", "acq_unlink"}
                   /\ loc[p].sid = s
                   /\ LockOf(loc[p].op) = n
                   /\ loc[p].got}

\* C2: while no marker has grown older than LOCK_TIMEOUT_MS, each lock of
\* each session has at most one holder.
C2_MutualExclusion ==
    ~hist.overheld =>
        \A s \in Sessions, n \in LockNames : Cardinality(Holders(s, n)) <= 1


\* The counter file of s holds an integer greater than zero.
CounterPositive(s) ==
    /\ Exists(pending[s])
    /\ Content(pending[s]) # <<>>
    /\ Content(pending[s])[1] > 0

\* A step removes the metadata or the log file of s.
Deletes(s) ==
    \/ Exists(meta[s]) /\ ~Exists(meta'[s])
    \/ Exists(log[s]) /\ ~Exists(log'[s])

\* C6 as stated: no step removes a session's metadata or log file while its
\* pending counter is greater than zero.
C6_NoDeleteWhilePending ==
    [][\A s \in Sessions : Deletes(s) => ~CounterPositive(s)]_vars

\* C6 amended: clearSessionFile removes the metadata or log file while the
\* counter is greater than zero only if its wait ran for the whole maxWaitMs
\* or the counter file changed after the wait's last read.
C6_DeleteOnlyAfterWait ==
    [][\A p \in Procs :
          (/\ pc[p] \in {"clr_meta", "clr_obs"}
           /\ pc'[p] \notin {pc[p], "dead"}
           /\ Deletes(loc[p].sid)
           /\ CounterPositive(loc[p].sid))
          => (loc[p].expired \/ pending[loc[p].sid] # loc[p].seen)]_vars

\* clearSessionFile has removed the metadata after its wait expired, and a
\* counted job is still in flight.
C6_Witness ==
    \E p \in Procs :
        /\ pc[p] = "clr_obs"
        /\ loc[p].expired
        /\ ~Exists(meta[loc[p].sid])
        /\ CounterPositive(loc[p].sid)

\* Process p has left the wait loop of its current call.
WaitEnded(p) ==
    /\ loc[p].op \in {"clearSessionFile", "getPreCompactKnowledge"}
    /\ Running(p)
    /\ pc[p] # "wait"

\* The wait loop's last read found the counter file absent or holding an
\* integer <= 0.
SeenZero(p) ==
    \/ ~Exists(loc[p].seen)
    \/ Content(loc[p].seen) # <<>> /\ Content(loc[p].seen)[1] <= 0

\* C7 as stated: the conservative wait ends only after a read found the
\* counter file absent or holding a value <= 0.
C7_WaitEndsOnlyOnZero ==
    \A p \in Procs : WaitEnded(p) => (~loc[p].expired /\ SeenZero(p))

\* C7 amended: the conservative wait ends only after a read found the
\* counter file absent or holding a value <= 0, or after maxWaitMs; a read
\* of an empty (unparseable) counter file never ends it.
C7_WaitEndsOnZeroOrTimeout ==
    \A p \in Procs : WaitEnded(p) => (loc[p].expired \/ SeenZero(p))

\* A waiter has read the counter file empty (between the truncation and the
\* write of a concurrent update) and is still waiting.
C7_Witness ==
    \E p \in Procs :
        /\ pc[p] = "wait"
        /\ Exists(loc[p].seen)
        /\ Content(loc[p].seen) = <<>>
        /\ ~loc[p].expired

\* C10: every step that writes or removes the counter file of s is taken by
\* a process that is between a successful acquire of the pending lock of s
\* and its release.
C10_CounterWrittenUnderLock ==
    [][\A s \in Sessions :
          pending'[s] # pending[s] =>
              \E p \in Procs :
                  /\ pc'[p] # pc[p]
                  /\ p \in Holders(s, "pending.lock")]_vars

\* ------------------------------------------------------------ SpecCounter
\* Concurrent counter updates on s1, and nothing else.
NextCounter ==
    \/ Tick
    \/ \E p \in Jobs :
          \/ CallMarkStarted(p, "s1")
          \/ CallMarkCompleted(p, "s1")
          \/ AcqOpen(p)
          \/ AcqStat(p)
          \/ AcqUnlink(p)
          \/ CntRead(p)
          \/ CntTrunc(p)
          \/ CntWrite(p)
          \/ CntUnlink(p)
          \/ CntRelease(p)

SpecCounter == Started /\ [][NextCounter]_vars

\* the counter of s, an absent file being zero
CounterValue(s) == getPendingJobCount(pending[s], FALSE)

Max(a, b) == IF a > b THEN a ELSE b

MaxJobs == 2

ScriptStarted(p) ==
    /\ hist.completed = 0
    /\ hist.started < MaxJobs
    /\ Begin(p, "markBackgroundJobStarted", "s1", 0, "acq_open")
    /\ hist' = [hist EXCEPT !.started = @ + 1]
    /\ UNCHANGED <<now, fsVars>>

ScriptCompleted(p) ==
    /\ hist.completed <= hist.started
    /\ Begin(p, "markBackgroundJobCompleted", "s1", 0, "acq_open")
    /\ hist' = [hist EXCEPT !.completed = @ + 1]
    /\ UNCHANGED <<now, fsVars>>

NextCounterSeq ==
    \/ Tick
    \/ ScriptStarted(1)
    \/ ScriptCompleted(1)
    \/ AcqOpen(1)
    \/ CntRead(1)
    \/ CntTrunc(1)
    \/ CntWrite(1)
    \/ CntUnlink(1)
    \/ CntRelease(1)

SpecCounterSeq == Started /\ [][NextCounterSeq]_vars

\* C8: after K markBackgroundJobStarted calls and then K or K + 1
\* markBackgroundJobCompleted calls, there is no counter file and no pending
\* lock marker.
C8_BalancedLeavesNoFile ==
    (Idle(1) /\ hist.completed >= hist.started) =>
        /\ ~Exists(pending["s1"])
        /\ ~Exists(lock["s1"]["pending.lock"])

\* MaxJobs jobs were registered and completed, and the one further
\* markBackgroundJobCompleted has returned.
C8_Witness ==
    /\ Idle(1)
    /\ hist.started = 2
    /\ hist.completed = 3
    /\ hist.underflow
    /\ ~Exists(pending["s1"])
    /\ ~Exists(lock["s1"]["pending.lock"])

\* ------------------------------------------------------- Session metadata
\* The hooks process starts and ends the session, a background job updates
\* it, a third process reads it; a writer may be killed anywhere.
Hooks == {1}
Updaters == {2}
Readers == {3}
Writers == Hooks \cup Updaters
Projects == {1}
EndTypes == {"stop", "end"}

NextMeta ==
    \/ Tick
    \/ \E p \in Hooks : \E project \in Projects : CallStartSession(p, "s1", project)
    \/ \E p \in Hooks : \E e \in EndTypes : CallEndSession(p, "s1", e)
    \/ \E p \in Updaters : CallUpdateSessionSummary(p, "s1", 1)
    \/ \E p \in Updaters : CallUpdatePreCompactKnowledge(p, "s1")
    \/ \E p \in Readers : CallReadSession(p, "s1")
    \/ \E p \in Procs : TmpCreate(p)
    \/ \E p \in Procs : TmpWrite(p)
    \/ \E p \in Procs : Rename(p)
    \/ \E p \in Procs : EndRead(p)
    \/ \E p \in Procs : UpdRead(p)
    \/ \E p \in Procs : ReadSessionMeta(p)
    \/ \E p \in Procs : ReadSessionObs(p)
    \/ \E p \in Writers : Exists(tmp[p]) /\ Kill(p)

SpecMeta == EmptyDir /\ [][NextMeta]_vars

\* the file is a whole record that was handed to writeSessionMetadata
Complete(f) == Content(f) # <<>> /\ Content(f)[1] \in hist.passed

\* C3: the metadata file is at every moment absent or one complete record that
\* was passed to writeSessionMetadata, so that every read returns null or such
\* a record, also when a writer is killed before its rename.
C3_AtomicReplace ==
    /\ \A s \in Sessions : Exists(meta[s]) => Complete(meta[s])
    /\ \A s \in Sessions : readSessionMetadata(s) = <<>>
                              \/ readSessionMetadata(s)[1] \in hist.passed
    /\ \A p \in Readers : loc[p].md = <<>> \/ loc[p].md[1] \in hist.passed

\* a writer was killed with its temp file written and not renamed, another
\* record has replaced the first one, and a reader has read it
C3_Witness ==
    /\ Exists(meta["s1"])
    /\ \E p \in Writers : /\ pc[p] = "dead" /\ Exists(tmp[p])
                          /\ Content(tmp[p]) \notin {<<>>, Content(meta["s1"])}
    /\ \E p \in Readers : pc[p] = "rs_obs" /\ loc[p].md = Content(meta["s1"])

Terminal(f) == Exists(f) /\ Content(f) # <<>> /\ Content(f)[1].status # "active"

\* C4: once the stored status is 'completed' or 'stopped', no step makes it
\* 'active' again.
C4_StatusIrreversible ==
    [][\A s \in Sessions :
          Terminal(meta[s]) /\ Exists(meta'[s]) => Terminal(meta'[s])]_vars

\* One process calls the session operations one after the other.
NextMetaSeq ==
    \/ Tick
    \/ \E project \in Projects : CallStartSession(1, "s1", project)
    \/ \E e \in EndTypes : CallEndSession(1, "s1", e)
    \/ CallUpdateSessionSummary(1, "s1", 1)
    \/ CallUpdatePreCompactKnowledge(1, "s1")
    \/ CallAddObservation(1, "s1")
    \/ AddRead(1)
    \/ AcqOpen(1)
    \/ AppendFirst(1)
    \/ AppendRest(1)
    \/ AppendRelease(1)
    \/ TmpCreate(1)
    \/ TmpWrite(1)
    \/ Rename(1)
    \/ EndRead(1)
    \/ UpdRead(1)
    \/ ReadSessionMeta(1)
    \/ ReadSessionObs(1)

SpecMetaSeq == EmptyDir /\ [][NextMetaSeq]_vars

\* C5: endSession called on a session whose stored status is already
\* 'completed' or 'stopped' writes nothing, whatever its endType, and returns
\* the record that was there, with its status, endTime and durationMinutes.
C5_EndSessionIdempotent ==
    \A p \in Procs :
        loc[p].op = "endSession" /\ Terminal(loc[p].pre) =>
            /\ meta[loc[p].sid] = loc[p].pre
            /\ tmp[p] = NoFile
            /\ Idle(p) =>
                  loc[p].ret = <<SessionOf(Content(loc[p].pre)[1],
                                           readObservations(loc[p].sid))>>

\* a second endSession, later and with the other endType, has returned
C5_Witness ==
    \E p \in Procs :
        /\ Idle(p) /\ loc[p].op = "endSession" /\ Terminal(loc[p].pre)
        /\ loc[p].kind = "end" /\ loc[p].ret # <<>>
        /\ loc[p].ret[1].status = "stopped"
        /\ loc[p].ret[1].endTime < now

\* ------------------------------------------------------- crashes of writers
\* Two hook processes append to the started session s1; a process can be
\* killed while it holds the observation lock, in the middle of its append.
NextCrash ==
    \/ Tick
    \/ \E p \in Appenders :
          \/ CallAddObservation(p, "s1")
          \/ AddRead(p)
          \/ AcqOpen(p)
          \/ AcqStat(p)
          \/ AcqUnlink(p)
          \/ AppendFirst(p)
          \/ AppendRest(p)
          \/ AppendRelease(p)
          \/ loc[p].got /\ Kill(p)

SpecCrash == Started /\ [][NextCrash]_vars

IsPrefix(q, r) == Len(q) <= Len(r) /\ \A i \in 1..Len(q) : q[i] = r[i]

\* The last piece of the log of s is the first part of a line whose writer
\* was killed before writing the rest.
TrailingFragment(s) ==
    /\ Exists(log[s])
    /\ Content(log[s]) # <<>>
    /\ \E p \in Procs :
          /\ pc[p] = "dead"
          /\ Content(log[s])[Len(Content(log[s]))] = FirstPiece(loc[p].arg)[1]

MaxLines == 3

FieldNames == {"id", "timestamp", "type", "tool"}
AllSet == [f \in FieldNames |-> "set"]

TextLine(text, n, value) == [text |-> text, n |-> n, value |-> value]

\* objects with at most one field that is not set
Objects ==
    {AllSet} \cup
    {[AllSet EXCEPT ![f] = v] : f \in FieldNames, v \in {"undefined", "empty"}}

Lines ==
    {TextLine(x, 0, AllSet) : x \in {"blank", "garbage", "null"}}
    \cup {TextLine("object", n, AllSet) : n \in {1, 2}}
    \cup {TextLine("object", 0, v) : v \in Objects \ {AllSet}}

Logs == UNION {[1..k -> Lines] : k \in 0..MaxLines}

\* if (!trimmed) continue
Blank(line) == line.text = "blank"

\* JSON.parse(trimmed) throws
ParseThrows(line) == line.text = "garbage"

\* a value in a condition
Truthy(v) == v = "set"

\* fault injection: tool is not looked at
RequiredButTool(value) ==
    Truthy(value["id"]) /\ Truthy(value["timestamp"]) /\ Truthy(value["type"])

\* obs.id && obs.timestamp && obs.type && obs.tool !== undefined
RequiredFields(value) ==
    /\ Truthy(value["id"]) /\ Truthy(value["timestamp"]) /\ Truthy(value["type"])
    /\ value["tool"] # "undefined"

\* the body of the loop pushes the line's observation; reading a property of
\* null throws inside the try and is caught with the parse errors
Pushes(line) ==
    /\ ~Blank(line)
    /\ ~ParseThrows(line)
    /\ line.text # "null"
    /\ RequiredFields(line.value)

\* a sessions directory holding one log and nothing else
LogOnly ==
    /\ now = 0
    /\ meta = [s \in Sessions |-> NoFile]
    /\ \E lines \in Logs :
          log = [s \in Sessions |-> IF s = "s1" THEN File(lines, 0) ELSE NoFile]
    /\ lock = [s \in Sessions |-> [n \in LockNames |-> NoFile]]
    /\ pending = [s \in Sessions |-> NoFile]
    /\ tmp = [p \in Procs |-> NoFile]
    /\ pc = [p \in Procs |-> "idle"]
    /\ loc = [p \in Procs |-> NoLocals]
    /\ ncalls = 0
    /\ hist = NoHistory

\* readObservations(sessionId)
CallReadObservations(p, s) ==
    /\ ncalls < 1
    /\ Begin(p, "readObservations", s, 0, "ro_read")
    /\ UNCHANGED <<now, fsVars, hist>>

\* existsSync, readFileSync, split; cnt is the index of the next line
RoRead(p) ==
    /\ pc[p] = "ro_read"
    /\ IF ~Exists(log[FileKey(loc[p].sid)])
       THEN Return(p, <<>>)
       ELSE /\ Goto(p, "ro_line")
            /\ loc' = [loc EXCEPT ![p].cnt = 1, ![p].obs = <<>>]
    /\ UNCHANGED <<now, fsVars, ncalls, hist>>

\* one turn of for (const line of lines), on the content read by RoRead
\* (the log does not change in this specification); return observations
RoLine(p) ==
    /\ pc[p] = "ro_line"
    /\ LET lines == Content(log[FileKey(loc[p].sid)])
           i == loc[p].cnt
       IN IF i > Len(lines)
          THEN Return(p, loc[p].obs)
          ELSE /\ loc' = [loc EXCEPT ![p].cnt = i + 1,
                                     ![p].obs = IF Pushes(lines[i])
                                                THEN Append(@, lines[i]) ELSE @]
               /\ UNCHANGED pc
    /\ UNCHANGED <<now, fsVars, ncalls, hist>>

NextRead ==
    \/ CallReadObservations(1, "s1")
    \/ RoRead(1)
    \/ RoLine(1)

SpecRead == LogOnly /\ [][NextRead]_vars

\* a valid record: an object with id, timestamp, type and tool
ValidRecord(line) == line.text = "object" /\ line.value = AllSet

\* a line that is not valid JSON, or an object that lacks a required field
InvalidLine(line) ==
    \/ line.text = "garbage"
    \/ line.text = "object" /\ \E f \in FieldNames : line.value[f] = "undefined"

\* readObservations has returned from reading the log of s1
HasRead == Idle(1) /\ loc[1].op = "readObservations"

\* C12: when every line of the log is a valid record, a line that is not
\* JSON or an object lacking id, timestamp, type or tool, readObservations
\* returns exactly the valid records, in the order of the log.
C12_ValidLinesRead ==
    LET lines == Content(log["s1"])
    IN (HasRead /\ \A i \in 1..Len(lines) : ValidRecord(lines[i]) \/ InvalidLine(lines[i]))
         => loc[1].ret = SelectSeq(lines, ValidRecord)

\* record 2, a line that is not JSON or lacks a field, record 1: both
\* records have been returned, 2 before 1
C12_Witness ==
    LET lines == Content(log["s1"])
    IN /\ HasRead
       /\ Len(lines) = 3
       /\ ValidRecord(lines[1]) /\ lines[1].n = 2
       /\ InvalidLine(lines[2])
       /\ ValidRecord(lines[3]) /\ lines[3].n = 1
       /\ loc[1].ret = <<lines[1], lines[3]>>

\* ------------------------------------------------------- Stale Session Reaper
\* maxAgeHours * 60 * 60 * 1000
HourMs == 3600000

\* The run starts at time 0, long after the epoch: the time 0 of the code
\* (let lastActivity = 0) lies before every modification time.
Epoch == 0 - 2 * HourMs

\* Orders in which readdirSync can list the metadata files present.
Listings ==
    LET present == {s \in Sessions : Exists(meta[s])}
    IN {q \in UNION {[1..k -> present] : k \in 0..Cardinality(Sessions)} :
          /\ Len(q) = Cardinality(present)
          /\ \A i, j \in 1..Len(q) : i # j => q[i] # q[j]}

\* cleanupStaleSessions(maxAgeHours): now, maxAge and the directory listing
CallCleanupStaleSessions(p, maxAgeHours) ==
    /\ Budget
    /\ pc[p] = "idle"
    /\ ncalls' = ncalls + 1
    /\ pc' = [pc EXCEPT ![p] = "cs_read"]
    /\ \E files \in Listings :
          loc' = [loc EXCEPT ![p] = [NoLocals EXCEPT
                    !.op = "cleanupStaleSessions",
                    !.arg = maxAgeHours,
                    !.sweep = <<[now |-> now, maxAge |-> maxAgeHours * HourMs,
                                 files |-> files, last |-> Epoch, logAt |-> NoFile,
                                 stale |-> <<>>]>>]]
    /\ UNCHANGED <<now, fsVars, hist>>

\* the file the loop is at
SweepFile(p) == loc[p].sweep[1].files[1]

\* continue with the next file
SweepNext(p) ==
    loc' = [loc EXCEPT ![p].sweep[1].files = Tail(@), ![p].md = <<>>]

\* fault injection: a file that cannot be read or parsed ends the loop
NoneAfterInvalid(files) == <<>>

\* try { ... } catch { /* Skip invalid files */ } inside the loop: the files
\* still to visit after one that cannot be read or parsed
RestAfterInvalid(files) == Tail(files)

SkipInvalid(p) ==
    loc' = [loc EXCEPT ![p].sweep[1].files = RestAfterInvalid(@), ![p].md = <<>>]

\* for (const file of files): readFileSync and JSON.parse of the metadata
\* file; return staleSessions after the last file
CsRead(p) ==
    /\ pc[p] = "cs_read"
    /\ IF loc[p].sweep[1].files = <<>>
       THEN Return(p, loc[p].sweep[1].stale)
       ELSE LET md == readSessionMetadata(SweepFile(p))
            IN IF md = <<>>
               THEN SkipInvalid(p) /\ UNCHANGED pc
               ELSE /\ Goto(p, "cs_statm")
                    /\ loc' = [loc EXCEPT ![p].md = md]
    /\ UNCHANGED <<now, fsVars, ncalls, hist>>

\* getSessionLastActivity: the metadata file's mtime ...
CsStatMeta(p) ==
    /\ pc[p] = "cs_statm"
    /\ LET f == meta[FileKey(loc[p].md[1].id)]
       IN loc' = [loc EXCEPT ![p].sweep[1].last =
                     IF Exists(f) THEN Max(Epoch, Mtime(f)) ELSE Epoch]
    /\ Goto(p, "cs_stato")
    /\ UNCHANGED <<now, fsVars, ncalls, hist>>

\* fault injection: the log file's mtime is not looked at
MetadataActivity(last, f) == last

\* lastActivity = Math.max(lastActivity, stat.mtimeMs) for the log file
LastActivity(last, f) == IF Exists(f) THEN Max(last, Mtime(f)) ELSE last

\* if (now - lastActivity > maxAge)
StaleAt(t, last, maxAge) == t - last > maxAge

\* ... and the log file's mtime, then the staleness test
CsStatObs(p) ==
    /\ pc[p] = "cs_stato"
    /\ LET f == log[FileKey(loc[p].md[1].id)]
           sw == loc[p].sweep[1]
           last == LastActivity(sw.last, f)
       IN IF StaleAt(sw.now, last, sw.maxAge)
          THEN /\ Goto(p, "cs_rsm")
               /\ loc' = [loc EXCEPT ![p].sweep[1].last = last,
                                     ![p].sweep[1].logAt = f]
          ELSE /\ SweepNext(p)
               /\ Goto(p, "cs_read")
    /\ UNCHANGED <<now, fsVars, ncalls, hist>>

\* const session = readSession(metadata.id): the metadata
CsSessionMeta(p) ==
    /\ pc[p] = "cs_rsm"
    /\ LET md == readSessionMetadata(loc[p].md[1].id)
       IN IF md = <<>>
          THEN Goto(p, "cs_clear") /\ UNCHANGED loc
          ELSE Goto(p, "cs_rso") /\ loc' = [loc EXCEPT ![p].obs = md]
    /\ UNCHANGED <<now, fsVars, ncalls, hist>>

\* fault injection: the session is pushed as it was read
CsSessionObsAsRead(p) ==
    /\ pc[p] = "cs_rso"
    /\ LET session == SessionOf(loc[p].obs[1], readObservations(loc[p].md[1].id))
       IN loc' = [loc EXCEPT ![p].sweep[1].stale = Append(@, session),
                             ![p].obs = <<>>]
    /\ Goto(p, "cs_clear")
    /\ UNCHANGED <<now, fsVars, ncalls, hist>>

\* readSession: the observations; an active session is pushed as 'stopped'
\* with endTime now
CsSessionObs(p) ==
    /\ pc[p] = "cs_rso"
    /\ LET session == SessionOf(loc[p].obs[1], readObservations(loc[p].md[1].id))
           pushed == IF session.status = "active"
                     THEN [session EXCEPT !.status = "stopped", !.endTime = now]
                     ELSE session
       IN loc' = [loc EXCEPT ![p].sweep[1].stale = Append(@, pushed),
                             ![p].obs = <<>>]
    /\ Goto(p, "cs_clear")
    /\ UNCHANGED <<now, fsVars, ncalls, hist>>

\* clearSessionFile(metadata.id)
CsClear(p) ==
    /\ pc[p] = "cs_clear"
    /\ Goto(p, "wait")
    /\ loc' = [loc EXCEPT ![p] = [NoLocals EXCEPT
                  !.op = "clearSessionFile",
                  !.sid = loc[p].md[1].id,
                  !.arg = loc[p].arg,
                  !.sweep = <<[loc[p].sweep[1] EXCEPT !.files = Tail(@)]>>]]
    /\ UNCHANGED <<now, fsVars, ncalls, hist>>

\* Modification times of the files found by a sweep, relative to the start
\* of the run (time 0): older than an hour, exactly an hour old, new.
Ages == {0 - HourMs - TickMs, 0 - HourMs, 0}

\* the metadata file of a session started at time t
StartedAt(s, t) ==
    File(<<[NewMetadata(s, 1) EXCEPT !.startTime = t, !.lastUpdated = t]>>, t)

\* the log of a session holding observation o, appended at time t
LoggedAt(o, t) == File(FirstPiece(o) \o RestPiece(o), t)

\* Session s1 was started at some time and has no log or a log last
\* appended to at some time; session s2 is absent or was started long ago.
SweepDir ==
    /\ now = 0
    /\ \E tm \in Ages, old \in BOOLEAN :
          meta = [s \in Sessions |->
                    IF s = "s1" THEN StartedAt(s, tm)
                    ELSE IF old THEN StartedAt(s, 0 - HourMs - TickMs) ELSE NoFile]
    /\ \E f \in {NoFile} \cup {LoggedAt(9, tl) : tl \in Ages} :
          log = [s \in Sessions |-> IF s = "s1" THEN f ELSE NoFile]
    /\ lock = [s \in Sessions |-> [n \in LockNames |-> NoFile]]
    /\ pending = [s \in Sessions |-> NoFile]
    /\ tmp = [p \in Procs |-> NoFile]
    /\ pc = [p \in Procs |-> "idle"]
    /\ loc = [p \in Procs |-> NoLocals]
    /\ ncalls = 0
    /\ hist = NoHistory

\* Process 3 sweeps while process 1 appends to s1.
Sweepers == {3}
MaxAgeHours == {1}

NextReaper ==
    \/ Tick
    \/ \E p \in Sweepers : \E h \in MaxAgeHours : CallCleanupStaleSessions(p, h)
    \/ CallAddObservation(1, "s1")
    \/ \E p \in Procs :
          \/ CsRead(p)
          \/ CsStatMeta(p)
          \/ CsStatObs(p)
          \/ CsSessionMeta(p)
          \/ CsSessionObs(p)
          \/ CsClear(p)
          \/ WaitPending(p)
          \/ AcqOpen(p)
          \/ AcqStat(p)
          \/ AcqUnlink(p)
          \/ ClrMeta(p)
          \/ ClrObs(p)
          \/ ClrPending(p)
          \/ ClrPendingLock(p)
          \/ ClrFinally(p)
          \/ AddRead(p)
          \/ AppendFirst(p)
          \/ AppendRest(p)
          \/ AppendRelease(p)

SpecReaper == SweepDir /\ [][NextReaper]_vars

\* Process p is in a sweep that found its current session stale: it is
\* reading the session to return it, or in the clearSessionFile that removes
\* it.
Reaping(p) ==
    \/ pc[p] \in {"cs_rsm", "cs_rso", "cs_clear"}
    \/ loc[p].op = "clearSessionFile" /\ loc[p].sweep # <<>> /\ Running(p)

\* C13: a sweep returns or removes a session only if, when the sweep looked
\* at it, its log file was absent or last modified more than maxAge before
\* the sweep's start.
C13_FreshLogNotReaped ==
    \A p \in Procs :
        Reaping(p) =>
            LET sw == loc[p].sweep[1]
            IN ~Exists(sw.logAt) \/ sw.now - Mtime(sw.logAt) > sw.maxAge

\* a sweep has passed over s1, whose metadata file is older than maxAge and
\* whose log is not, and the files of s1 are still there
C13_Witness ==
    \E p \in Sweepers :
        /\ Idle(p) /\ loc[p].op = "cleanupStaleSessions"
        /\ \A i \in 1..Len(loc[p].ret) : loc[p].ret[i].id # "s1"
        /\ Exists(meta["s1"]) /\ Mtime(meta["s1"]) < 0 - HourMs
        /\ Exists(log["s1"]) /\ now - Mtime(log["s1"]) <= HourMs
        /\ hist.okObs = {}

\* the last activity of session s as its files are now
LastActivityNow(s) ==
    LastActivity(IF Exists(meta[s]) THEN Max(Epoch, Mtime(meta[s])) ELSE Epoch, log[s])

\* C14: a sweep removes the metadata or log file of a session only if the
\* session is stale at the moment of the removal: no append and no metadata
\* write has reached it within maxAge.
C14_SweepRemovesOnlyStale ==
    [][\A p \in Procs :
          (/\ loc[p].op = "clearSessionFile" /\ loc[p].sweep # <<>>
           /\ pc'[p] # pc[p]
           /\ Deletes(loc[p].sid))
          => StaleAt(now, LastActivityNow(loc[p].sid), loc[p].sweep[1].maxAge)]_vars

\* ------------------------------------------------------- progress after a crash
\* The steps a live process takes inside addObservation.
AppendStep(p) ==
    \/ AddRead(p)
    \/ AcqOpen(p)
    \/ AcqStat(p)
    \/ AcqUnlink(p)
    \/ AppendFirst(p)
    \/ AppendRest(p)
    \/ AppendRelease(p)

\* SpecCrash with a scheduler that lets every live process take its next
\* step and a clock that advances (up to MaxTime).
SpecCrashFair ==
    /\ Started
    /\ [][NextCrash]_vars
    /\ WF_vars(Tick)
    /\ \A p \in Appenders : WF_vars(AppendStep(p))

\* The observation lock marker of s was left by a killed process and is older
\* than LOCK_TIMEOUT_MS.
Abandoned(s) ==
    /\ Exists(lock[s]["lock"])
    /\ pc[Content(lock[s]["lock"])[1]] = "dead"
    /\ now - Mtime(lock[s]["lock"]) > LOCK_TIMEOUT_MS

\* Process p is in an acquire attempt on s that has found the marker there.
SeesMarker(p, s) ==
    /\ pc[p] = "acq_stat"
    /\ loc[p].sid = s
    /\ LockOf(loc[p].op) = "lock"

\* C15: when an acquire attempt finds the marker that a killed holder left,
\* older than the staleness threshold, the marker is eventually removed, and
\* the lock is free or held by a live process.
C15_AbandonedLockReclaimed ==
    (\E p \in Procs : SeesMarker(p, "s1") /\ Abandoned("s1")) ~> ~Abandoned("s1")

\* after one process was killed holding the lock, a later addObservation of
\* another process has taken the lock and returned true
C15_Witness ==
    \E p, q \in Appenders :
        /\ pc[q] = "dead"
        /\ Idle(p) /\ loc[p].op = "addObservation"
        /\ loc[p].ret = <<TRUE>>
        /\ loc[p].arg > loc[q].arg
        /\ ~Exists(lock["s1"]["lock"])

\* ------------------------------------------------------- termination of acquire
\* Processes 1 and 2 append observations and register background jobs on s1; a lock holder can be killed, leaving its marker.
NextAcquire ==
    \/ Tick
    \/ \E p \in Appenders :
          \/ CallAddObservation(p, "s1")
          \/ CallMarkStarted(p, "s1")
          \/ AppendStep(p)
          \/ CntRead(p)
          \/ CntTrunc(p)
          \/ CntWrite(p)
          \/ CntRelease(p)
          \/ loc[p].got /\ Kill(p)

\* The steps a live process takes inside one of these calls.
LockedStep(p) ==
    \/ AppendStep(p)
    \/ CntRead(p)
    \/ CntTrunc(p)
    \/ CntWrite(p)
    \/ CntRelease(p)

SpecAcquireFair ==
    /\ Started
    /\ [][NextAcquire]_vars
    /\ WF_vars(Tick)
    /\ \A p \in Appenders : WF_vars(LockedStep(p))

\* Process p is inside acquireLock or acquirePendingLock.
InAcquire(p) == pc[p] \in {"acq_open", "acq_stat", "acq_unlink"}

\* The call's timeout lies beyond the last tick of the model's clock.
OutlastsClock(p) ==
    loc[p].startT # NoTime /\ loc[p].startT + LOCK_TIMEOUT_MS > MaxTime

KillJob(p) ==
    /\ Idle(p)
    /\ loc[p].op = "markBackgroundJobStarted"
    /\ pc' = [pc EXCEPT ![p] = "dead"]
    /\ UNCHANGED <<now, fsVars, loc, ncalls, hist>>

\* Background jobs that may be killed before they decrement, and a hook that
\* waits for them in clearSessionFile or getPreCompactKnowledge.
NextWait ==
    \/ NextJobs
    \/ \E p \in Jobs : KillJob(p)

\* The clock advances and a waiting hook keeps running its loop.
SpecWaitFair ==
    /\ Started
    /\ [][NextWait]_vars
    /\ WF_vars(Tick)
    /\ \A p \in Enders : WF_vars(WaitPending(p))

\* The wait loop of p began so late that its maxWaitMs ends after the last
\* value of the model's clock.
WaitOutlastsClock(p) ==
    /\ loc[p].startT # NoTime
    /\ loc[p].startT + ClearMaxWaitMs > MaxTime

\* C17: the wait loops of getPreCompactKnowledge and clearSessionFile end in
\* every execution, on a count <= 0 or once maxWaitMs has elapsed, also when
\* a background job was killed and never decrements its count.
C17_WaitLoopsTerminate ==
    \A p \in Enders :
        pc[p] = "wait" ~> (pc[p] # "wait" \/ WaitOutlastsClock(p))

\* A job was killed after it incremented the counter, the counter is still
\* positive, and a hook has left its wait loop because maxWaitMs elapsed.
C17_Witness ==
    \E p \in Enders, q \in Jobs :
        /\ pc[q] = "dead"
        /\ CounterPositive("s1")
        /\ WaitEnded(p)
        /\ loc[p].expired

\* ------------------------------------------------------- failing appends
\* Two hook processes append to the started session s1; the write to the log
\* may fail, and a slow holder makes the other's acquisition time out.
NextFail ==
    \/ NextAppend
    \/ \E p \in Appenders :
          \/ AppendThrows(p)
          \/ AppendCatch(p)

SpecFail == Started /\ [][NextFail]_vars

\* No part of the observation of p's call is in the log of its session.
NothingWritten(p) ==
    LET f == log[loc[p].sid]
    IN Exists(f) => \A i \in 1..Len(Content(f)) : Content(f)[i].o # loc[p].arg

\* The marker of the observation lock of p's session is the one p created.
OwnMarker(p) ==
    LET f == lock[loc[p].sid]["lock"]
    IN Exists(f) /\ Content(f) = <<p>>

\* C18: addObservation returns false, and raises nothing, when the lock is
\* not acquired within the timeout and when the write to the log fails; on
\* the timeout the log is as it was and holds nothing of the observation; on
\* the write failure the marker this call created is gone when it returns.
C18_AddObservationFailsSafely ==
    [][\A p \in Appenders :
          (loc[p].op = "addObservation" /\ Running(p) /\ pc'[p] = "idle")
              => /\ loc'[p].ret \in {<<TRUE>>, <<FALSE>>}
                 /\ pc[p] = "acq_open"
                       => /\ loc'[p].ret = <<FALSE>>
                          /\ log' = log
                          /\ NothingWritten(p)
                 /\ pc[p] = "app_catch"
                       => /\ loc'[p].ret = <<FALSE>>
                          /\ ~OwnMarker(p)']_vars

\* One call returned false after its write failed, leaving no marker, and
\* another returned false after the timeout of its acquisition, the session
\* still active and nothing of its observation in the log.
C18_Witness ==
    \E p, q \in Appenders :
        /\ Idle(p) /\ loc[p].threw /\ loc[p].ret = <<FALSE>>
        /\ ~Exists(lock["s1"]["lock"])
        /\ Idle(q) /\ ~loc[q].threw /\ loc[q].ret = <<FALSE>>
        /\ loc[q].op = "addObservation"
        /\ NothingWritten(q)

\* ------------------------------------------------------- a session begins
\* The sessions directory before a session-start hook runs: empty, or with
\* the files an earlier session of the same id left behind.
OldLogs ==
    {NoFile,
     File(FirstPiece(1) \o RestPiece(1), 0),
     File(FirstPiece(2) \o RestPiece(2) \o FirstPiece(3) \o RestPiece(3), 0)}

OldMetadata ==
    {NoFile,
     File(<<[id |-> "s1", project |-> 2, projectPath |-> 2,
             startTime |-> 0, endTime |-> 0, durationMinutes |-> 0,
             status |-> "completed", summary |-> 1, lastUpdated |-> 0,
             preCompactKnowledge |-> <<>>]>>, 0)}

UsedDir ==
    /\ now = 0
    /\ meta \in [Sessions -> OldMetadata]
    /\ \A s \in Sessions : s # "s1" => meta[s] = NoFile
    /\ log \in [Sessions -> OldLogs]
    /\ \A s \in Sessions : s # "s1" => log[s] = NoFile
    /\ lock = [s \in Sessions |-> [n \in LockNames |-> NoFile]]
    /\ pending = [s \in Sessions |-> NoFile]
    /\ tmp = [p \in Procs |-> NoFile]
    /\ pc = [p \in Procs |-> "idle"]
    /\ loc = [p \in Procs |-> NoLocals]
    /\ ncalls = 0
    /\ hist = NoHistory

StartProjects == {1, 2}

\* The session-start hook calls startSession once.
ScriptStartSession(p) ==
    /\ ncalls = 0
    /\ \E project \in StartProjects : CallStartSession(p, "s1", project)

\* A later hook calls readSession once startSession has returned.
ScriptReadSession(p, q) ==
    /\ Idle(q)
    /\ loc[q].op = "startSession"
    /\ loc[p].op = "none"
    /\ CallReadSession(p, "s1")

NextStartRead ==
    \/ Tick
    \/ ScriptStartSession(1)
    \/ ScriptReadSession(3, 1)
    \/ TmpCreate(1)
    \/ TmpWrite(1)
    \/ Rename(1)
    \/ ReadSessionMeta(3)
    \/ ReadSessionObs(3)

SpecStartRead == UsedDir /\ [][NextStartRead]_vars

\* readSession of process p has returned, after the startSession of q.
ReadAfterStart(p, q) ==
    /\ Idle(p) /\ loc[p].op = "readSession"
    /\ Idle(q) /\ loc[q].op = "startSession"

\* C19: startSession(id, project, path) followed by readSession(id) returns
\* a session with that id, project and path, status 'active', no endTime,
\* and, when the id had no log, no observation and all derived counters zero.
C19_StartThenRead ==
    ReadAfterStart(3, 1) =>
        /\ loc[3].ret # <<>>
        /\ LET r == loc[3].ret[1]
           IN /\ r.id = loc[1].sid
              /\ r.project = loc[1].arg
              /\ r.projectPath = loc[1].arg
              /\ r.status = "active"
              /\ r.endTime = NoTime
              /\ ~Exists(log[loc[1].sid]) =>
                    /\ r.observations = <<>>
                    /\ r.filesModified = {}
                    /\ r.commandsRun = 0
                    /\ r.errorsEncountered = 0

\* startSession wrote the record some time after the directory was first
\* seen, the id had no log, and readSession has returned a session.
C19_Witness ==
    /\ ReadAfterStart(3, 1)
    /\ ~Exists(log["s1"])
    /\ loc[1].arg = 1
    /\ hist.passed # {}
    /\ loc[3].ret # <<>>
    /\ loc[3].ret[1].startTime > 0

\* ------------------------------------------------------- two sessions
\* startSession has returned for s1 and for s2 in an empty directory
TwoStarted ==
    /\ now = 0
    /\ meta = [s \in Sessions |-> File(<<NewMetadata(s, 1)>>, 0)]
    /\ log = [s \in Sessions |-> NoFile]
    /\ lock = [s \in Sessions |-> [n \in LockNames |-> NoFile]]
    /\ pending = [s \in Sessions |-> NoFile]
    /\ tmp = [p \in Procs |-> NoFile]
    /\ pc = [p \in Procs |-> "idle"]
    /\ loc = [p \in Procs |-> NoLocals]
    /\ ncalls = 0
    /\ hist = [NoHistory EXCEPT !.passed = {NewMetadata(s, 1) : s \in Sessions}]

\* Process 1 serves the session s1 and process 2 the session s2.
Servers == {1, 2}

\* Process 1 runs every operation on s1; process 2 appends once to s2 or
\* registers a background job of s2, and may be killed while it holds the
\* lock.  The clock advances once, which lets a wait loop run out.
NextTwo ==
    \/ now < TickMs /\ Tick
    \/ \E project \in Projects : CallStartSession(1, "s1", project)
    \/ \E e \in EndTypes : CallEndSession(1, "s1", e)
    \/ CallUpdateSessionSummary(1, "s1", 1)
    \/ CallUpdatePreCompactKnowledge(1, "s1")
    \/ CallMarkCompleted(1, "s1")
    \/ CallClearSessionFile(1, "s1")
    \/ CallAddObservation(1, "s1")
    \/ CallMarkStarted(1, "s1")
    \/ loc[2].op = "none" /\ CallAddObservation(2, "s2")
    \/ loc[2].op = "none" /\ CallMarkStarted(2, "s2")
    \/ loc[2].got /\ Kill(2)
    \/ \E p \in Servers :
          \/ AddRead(p)
          \/ AcqOpen(p)
          \/ AppendFirst(p)
          \/ AppendRest(p)
          \/ AppendRelease(p)
          \/ TmpCreate(p)
          \/ TmpWrite(p)
          \/ Rename(p)
          \/ EndRead(p)
          \/ UpdRead(p)
          \/ ReadSessionMeta(p)
          \/ ReadSessionObs(p)
          \/ CntRead(p)
          \/ CntTrunc(p)
          \/ CntWrite(p)
          \/ CntUnlink(p)
          \/ CntRelease(p)
          \/ WaitPending(p)
          \/ ClrMeta(p)
          \/ ClrObs(p)
          \/ ClrPending(p)
          \/ ClrPendingLock(p)
          \/ ClrFinally(p)

SpecTwo == TwoStarted /\ [][NextTwo]_vars

\* The step is one of process p.
StepOf(p) == pc'[p] # pc[p] \/ loc'[p] # loc[p]

\* The step leaves the files of session s as they are.
Untouched(s) ==
    /\ meta'[s] = meta[s]
    /\ log'[s] = log[s]
    /\ pending'[s] = pending[s]
    /\ lock'[s] = lock[s]

\* C20: for two different session ids, every step of an operation on the one
\* leaves the metadata, log, counter and lock markers of the other unchanged;
\* and an operation never finds its lock taken, so it is neither delayed nor
\* failed, when the only markers there are belong to the other session.
C20_SessionsIndependent ==
    /\ [][\A p \in Servers :
             StepOf(p) => \A s \in Sessions : s # loc'[p].sid => Untouched(s)]_vars
    /\ [](\A p \in Servers : pc[p] # "acq_stat" /\ ~hist.skipped)

\* The process of s2 was killed holding the observation lock of s2; later
\* the process of s1 has appended an observation to s1 and returned true.
C20_Witness ==
    /\ pc[2] = "dead"
    /\ loc[2].op = "addObservation"
    /\ Exists(lock["s2"]["lock"])
    /\ Idle(1)
    /\ loc[1].op = "addObservation"
    /\ loc[1].ret = <<TRUE>>
    /\ loc[1].arg > loc[2].arg
    /\ loc[1].arg \in Range(readObservations("s1"))

\* ------------------------------------------------------- derived file names
\* The session ids given to getSessionFilePath: every text of at most
\* MaxIdLen characters, some of them unsafe in a file name, the two ids of
\* the sessions, and three longer ones.
MaxIdLen == 2
IdChars == {"a", "b", "/", "_", "."}

SessionIds ==
    UNION {[1..n -> IdChars] : n \in 0..MaxIdLen}
      \cup {IdText(s) : s \in Sessions}
      \cup {<<"a", "/", "b">>, <<"a", "_", "b">>,
            <<".", ".", "/", ".", ".", "/", ".", ".", "/", "a">>}

\* Two processes are each about to derive the path of an id.
IdsGiven ==
    /\ now = 0
    /\ meta = [s \in Sessions |-> NoFile]
    /\ log = [s \in Sessions |-> NoFile]
    /\ lock = [s \in Sessions |-> [n \in LockNames |-> NoFile]]
    /\ pending = [s \in Sessions |-> NoFile]
    /\ tmp = [p \in Procs |-> NoFile]
    /\ pc = [p \in Procs |-> "idle"]
    /\ \E a, b \in SessionIds :
          loc = [p \in Procs |->
                   IF p = 1 THEN [NoLocals EXCEPT !.op = "getSessionFilePath", !.md = a]
                   ELSE IF p = 2
                   THEN [NoLocals EXCEPT !.op = "getSessionFilePath", !.md = b]
                   ELSE NoLocals]
    /\ ncalls = 0
    /\ hist = NoHistory

RECURSIVE Segments(_, _, _)
\* path.join: the segments a relative path is made of
Segments(chars, cur, i) ==
    IF i > Len(chars) THEN <<cur>>
    ELSE IF chars[i] = "/" THEN <<cur>> \o Segments(chars, <<>>, i + 1)
    ELSE Segments(chars, Append(cur, chars[i]), i + 1)

\* path.join(getSessionsDir(), `${safeSessionFilename(sessionId)}.json`)
getSessionFilePath(name) ==
    <<"sessions">> \o Segments(name \o <<".", "j", "s", "o", "n">>, <<>>, 1)

CallGetSessionFilePath(p) ==
    /\ pc[p] = "idle"
    /\ loc[p].op = "getSessionFilePath"
    /\ loc[p].ret = <<>>
    /\ Goto(p, "gsf_name")
    /\ UNCHANGED <<now, fsVars, loc, ncalls, hist>>

\* safeSessionFilename(sessionId)
GsfName(p) ==
    /\ pc[p] = "gsf_name"
    /\ loc' = [loc EXCEPT ![p].obs = safeSessionFilename(loc[p].md)]
    /\ Goto(p, "gsf_join")
    /\ UNCHANGED <<now, fsVars, ncalls, hist>>

GsfJoin(p) ==
    /\ pc[p] = "gsf_join"
    /\ loc' = [loc EXCEPT ![p].ret = getSessionFilePath(loc[p].obs)]
    /\ Goto(p, "idle")
    /\ UNCHANGED <<now, fsVars, ncalls, hist>>

NextNames ==
    \E p \in {1, 2} :
        \/ CallGetSessionFilePath(p)
        \/ GsfName(p)
        \/ GsfJoin(p)

SpecNames == IdsGiven /\ [][NextNames]_vars

\* getSessionFilePath of process p has returned.
PathDerived(p) == loc[p].op = "getSessionFilePath" /\ loc[p].ret # <<>>

\* The text has two dots in a row.
DotDot(chars) ==
    \E i \in 1..(Len(chars) - 1) : chars[i] = "." /\ chars[i + 1] = "."

NextRestart ==
    \/ Tick
    \/ \E project \in StartProjects : CallStartSession(1, "s1", project)
    \/ \E e \in EndTypes : CallEndSession(1, "s1", e)
    \/ CallUpdateSessionSummary(1, "s1", 1)
    \/ CallUpdatePreCompactKnowledge(1, "s1")
    \/ TmpCreate(1)
    \/ TmpWrite(1)
    \/ Rename(1)
    \/ EndRead(1)
    \/ UpdRead(1)
    \/ ReadSessionMeta(1)
    \/ ReadSessionObs(1)

SpecRestart == EmptyDir /\ [][NextRestart]_vars

\* C22: while the metadata of a session exists, the id, project and
\* projectPath stored in it do not change, whatever operation runs.
C22_IdentityImmutable ==
    [][\A s \in Sessions :
          (readSessionMetadata(s) # <<>> /\ readSessionMetadata(s)' # <<>>)
              => /\ readSessionMetadata(s)'[1].id = readSessionMetadata(s)[1].id
                 /\ readSessionMetadata(s)'[1].project = readSessionMetadata(s)[1].project
                 /\ readSessionMetadata(s)'[1].projectPath
                       = readSessionMetadata(s)[1].projectPath]_vars

\* ------------------------------------------------------- the two locks
\* Process 1 appends observations to s1 and process 2 updates the pending
\* counter of s1; either may be killed while it holds its lock.
NextLocks ==
    \/ Tick
    \/ CallAddObservation(1, "s1")
    \/ AddRead(1)
    \/ AppendFirst(1)
    \/ AppendRest(1)
    \/ AppendRelease(1)
    \/ CallMarkStarted(2, "s1")
    \/ CallMarkCompleted(2, "s1")
    \/ CntRead(2)
    \/ CntTrunc(2)
    \/ CntWrite(2)
    \/ CntUnlink(2)
    \/ CntRelease(2)
    \/ \E p \in {1, 2} :
          \/ AcqOpen(p)
          \/ loc[p].got /\ Kill(p)

SpecLocks == Started /\ [][NextLocks]_vars

\* The step is one of process p, in a call of one of the operations ops.
StepIn(p, ops) ==
    /\ pc'[p] # pc[p] \/ loc'[p] # loc[p]
    /\ loc'[p].op \in ops

\* C23: the counter updates never create or delete the observation lock
\* marker and addObservation never creates or deletes the pending lock
\* marker; neither ever finds its own lock taken by the other, so a counter
\* update completes while the observation lock is held, and an append while
\* the pending lock is held.
C23_LocksDistinct ==
    /\ [][\A p \in Procs, s \in Sessions :
             /\ StepIn(p, {"markBackgroundJobStarted", "markBackgroundJobCompleted"})
                   => lock'[s]["lock"] = lock[s]["lock"]
             /\ StepIn(p, {"addObservation"})
                   => lock'[s]["pending.lock"] = lock[s]["pending.lock"]]_vars
    /\ [](/\ \A p \in Procs : pc[p] # "acq_stat"
          /\ ~hist.skipped
          /\ hist.failObs = {})

\* The appender was killed holding the observation lock; the other process
\* took the pending lock after that, has written the counter and is about
\* to release.
C23_Witness ==
    /\ pc[1] = "dead"
    /\ Exists(lock["s1"]["lock"])
    /\ pc[2] = "cnt_rel"
    /\ loc[2].op = "markBackgroundJobStarted"
    /\ CounterPositive("s1")
    /\ Exists(lock["s1"]["pending.lock"])
    /\ Mtime(lock["s1"]["pending.lock"]) > Mtime(lock["s1"]["lock"])

\* ------------------------------------------------------- markers of returned calls
\* Process p is in acquireLock or between acquireLock and releaseLock.
AcquiringOrHolding(p) == pc[p] \notin {"idle", "add_read"}

\* The addObservation of p has returned true, or false after its write failed.
AppendReturned(p) ==
    /\ Idle(p)
    /\ loc[p].op = "addObservation"
    /\ loc[p].ret = <<TRUE>> \/ (loc[p].ret = <<FALSE>> /\ loc[p].threw)

\* C24: when an addObservation has returned, with true or with false after
\* a failed write, and no process is acquiring or holding the observation
\* lock of the session, the lock marker of the session does not exist.
C24_MarkerOnlyWhileHeld ==
    \A p \in Appenders :
        (AppendReturned(p) /\ \A q \in Procs : ~AcquiringOrHolding(q))
            => ~Exists(lock[FileKey(loc[p].sid)]["lock"])

\* One call has returned true and one false after its write failed, a marker
\* had grown older than the timeout in between, nobody is acquiring or
\* holding, and there is no marker.
C24_Witness ==
    /\ \E p, q \in Appenders :
          /\ AppendReturned(p) /\ loc[p].ret = <<TRUE>>
          /\ AppendReturned(q) /\ loc[q].ret = <<FALSE>>
    /\ \A q \in Procs : ~AcquiringOrHolding(q)
    /\ hist.overheld
    /\ ~Exists(lock["s1"]["lock"])

\* ------------------------------------------------------- order of the log
\* addObservation begins; the history notes which calls had returned true.
CallAddObservationAfter(p, s) ==
    /\ Budget
    /\ Begin(p, "addObservation", s, ncalls + 1, "add_read")
    /\ hist' = [hist EXCEPT !.before = @ \cup {<<a, ncalls + 1>> : a \in hist.okObs}]
    /\ UNCHANGED <<now, fsVars>>

\* Two hook processes append to s1, one after the other or at the same
\* time; a holder may be slow or be killed in the middle of its append.
NextOrder ==
    \/ Tick
    \/ \E p \in Appenders :
          \/ CallAddObservationAfter(p, "s1")
          \/ AppendStep(p)
          \/ loc[p].got /\ Kill(p)

SpecOrder == Started /\ [][NextOrder]_vars

\* The place of observation o in what readSession returns for s (0: absent).
PlaceOf(o, s) ==
    LET r == readObservations(s)
    IN IF \E i \in 1..Len(r) : r[i] = o
       THEN CHOOSE i \in 1..Len(r) : r[i] = o
       ELSE 0

\* C25: if the addObservation of A had returned true before the
\* addObservation of B on the same session began, every readSession that
\* returns both returns A before B.
C25_ReadOrderIsAppendOrder ==
    \A pair \in hist.before :
        (PlaceOf(pair[1], "s1") > 0 /\ PlaceOf(pair[2], "s1") > 0)
            => PlaceOf(pair[1], "s1") < PlaceOf(pair[2], "s1")

\* Three observations are read, the second call began after the first had
\* returned, and the third ran beside the second and reached the log first.
C25_Witness ==
    /\ <<1, 2>> \in hist.before
    /\ <<2, 3>> \notin hist.before
    /\ readObservations("s1") = <<1, 3, 2>>

\* ------------------------------------------------------- a session cleared
\* The files a session may have when clearSessionFile is called: metadata
\* or none, a log or none, a counter file (holding 1, or empty) or none, and
\* the markers process 2 left when it was killed holding a lock.
LeftBehind ==
    /\ now = 0
    /\ meta \in [Sessions -> {NoFile, File(<<NewMetadata("s1", 1)>>, 0)}]
    /\ log \in [Sessions -> {NoFile, File(FirstPiece(1) \o RestPiece(1), 0)}]
    /\ lock \in [Sessions -> [LockNames -> {NoFile, File(<<2>>, 0)}]]
    /\ pending \in [Sessions -> {NoFile, File(<<1>>, 0), File(<<>>, 0)}]
    /\ meta["s2"] = NoFile /\ log["s2"] = NoFile /\ pending["s2"] = NoFile
    /\ \A n \in LockNames : lock["s2"][n] = NoFile
    /\ tmp = [p \in Procs |-> NoFile]
    /\ pc = [p \in Procs |-> IF p = 2 THEN "dead" ELSE "idle"]
    /\ loc = [p \in Procs |-> NoLocals]
    /\ ncalls = 0
    /\ hist = NoHistory

\* The foreground process calls clearSessionFile once ...
ScriptClear(p) ==
    /\ loc[p].op = "none"
    /\ CallClearSessionFile(p, "s1")

\* ... and readSession is called once it has returned.
ScriptReadCleared(p, q) ==
    /\ Idle(q)
    /\ loc[q].op = "clearSessionFile"
    /\ loc[p].op = "none"
    /\ CallReadSession(p, "s1")

NextClear ==
    \/ Tick
    \/ ScriptClear(3)
    \/ WaitPending(3)
    \/ AcqOpen(3)
    \/ AcqStat(3)
    \/ AcqUnlink(3)
    \/ ClrMeta(3)
    \/ ClrObs(3)
    \/ ClrPending(3)
    \/ ClrPendingLock(3)
    \/ ClrFinally(3)
    \/ ScriptReadCleared(1, 3)
    \/ ReadSessionMeta(1)

SpecClear == LeftBehind /\ [][NextClear]_vars

\* No file of session s exists.
NoFileOf(s) ==
    /\ ~Exists(meta[s])
    /\ ~Exists(log[s])
    /\ ~Exists(pending[s])
    /\ \A n \in LockNames : ~Exists(lock[s][n])

\* C26: once clearSessionFile(id) has returned, no other process operating
\* on the session, none of the session's files exists (metadata, log,
\* observation lock marker, counter file, pending lock marker), and
\* readSession(id) returns null.
C26_ClearRemovesAll ==
    (Idle(3) /\ loc[3].op = "clearSessionFile") =>
        /\ NoFileOf("s1")
        /\ pc[1] # "rs_obs"
        /\ (Idle(1) /\ loc[1].op = "readSession") => loc[1].ret = <<>>

\* clearSessionFile has returned after the clock reached its last value
\* (time enough to wait out a counter or a marker), nothing is left, and
\* readSession has since returned null.
C26_Witness ==
    /\ Idle(3) /\ loc[3].op = "clearSessionFile"
    /\ Idle(1) /\ loc[1].op = "readSession" /\ loc[1].ret = <<>>
    /\ NoFileOf("s1")
    /\ now = MaxTime

\* ------------------------------------------------------- a sweep alone
\* the metadata file endSession left at time t for a session started then
EndedAt(s, t, status) ==
    File(<<[NewMetadata(s, 1) EXCEPT !.startTime = t, !.lastUpdated = t,
                                     !.status = status, !.endTime = t,
                                     !.durationMinutes = 0]>>, t)

\* The metadata files a sweep may find for session s.
MetadataFound(s) ==
    {NoFile} \cup {StartedAt(s, t) : t \in Ages}
             \cup {EndedAt(s, t, status) : t \in Ages, status \in {"completed", "stopped"}}

\* Each session is absent, active or ended, old or new, with or without an
\* old log; nothing else runs.
SweepAloneDir ==
    /\ now = 0
    /\ meta \in [Sessions -> UNION {MetadataFound(s) : s \in Sessions}]
    /\ \A s \in Sessions : meta[s] \in MetadataFound(s)
    /\ log \in [Sessions -> {NoFile, LoggedAt(9, 0 - HourMs - TickMs)}]
    /\ \A s \in Sessions : ~Exists(meta[s]) => ~Exists(log[s])
    /\ lock = [s \in Sessions |-> [n \in LockNames |-> NoFile]]
    /\ pending = [s \in Sessions |-> NoFile]
    /\ tmp = [p \in Procs |-> NoFile]
    /\ pc = [p \in Procs |-> "idle"]
    /\ loc = [p \in Procs |-> NoLocals]
    /\ ncalls = 0
    /\ hist = NoHistory

NextSweep ==
    \/ Tick
    \/ \E h \in MaxAgeHours : loc[3].op = "none" /\ CallCleanupStaleSessions(3, h)
    \/ CsRead(3)
    \/ CsStatMeta(3)
    \/ CsStatObs(3)
    \/ CsSessionMeta(3)
    \/ CsSessionObs(3)
    \/ CsClear(3)
    \/ WaitPending(3)
    \/ AcqOpen(3)
    \/ ClrMeta(3)
    \/ ClrObs(3)
    \/ ClrPending(3)
    \/ ClrPendingLock(3)
    \/ ClrFinally(3)

SpecSweep == SweepAloneDir /\ [][NextSweep]_vars

\* cleanupStaleSessions of process p has returned.
SweepReturned(p) == Idle(p) /\ loc[p].op = "cleanupStaleSessions"

\* C27: every session cleanupStaleSessions returns has status 'completed' or
\* 'stopped' and an end time, and when the sweep returns the metadata and the
\* log of each session returned are gone.
C27_SweepFinalizesAndRemoves ==
    SweepReturned(3) =>
        \A i \in 1..Len(loc[3].ret) :
            /\ loc[3].ret[i].status \in {"completed", "stopped"}
            /\ loc[3].ret[i].endTime # NoTime
            /\ ~Exists(meta[FileKey(loc[3].ret[i].id)])
            /\ ~Exists(log[FileKey(loc[3].ret[i].id)])

\* The sweep has returned two sessions: one that was still active, now
\* 'stopped' with the time of the sweep as its end, and one ended before.
C27_Witness ==
    /\ SweepReturned(3)
    /\ Len(loc[3].ret) = 2
    /\ \E i, j \in 1..2 :
          /\ loc[3].ret[i].status = "stopped" /\ loc[3].ret[i].endTime >= 0
          /\ loc[3].ret[j].status = "completed" /\ loc[3].ret[j].endTime < 0
          /\ loc[3].ret[j].observations # <<>>
    /\ \A s \in Sessions : ~Exists(meta[s]) /\ ~Exists(log[s])

\* ------------------------------------------------------- listActiveSessions
\* fault injection: sessions of every status are listed
AnyStatus(metadata) == TRUE

\* if (metadata.status === 'active')
IsActive(metadata) == metadata.status = "active"

\* listActiveSessions(): readdirSync lists the metadata files in some order
CallListActiveSessions(p) ==
    /\ pc[p] = "idle"
    /\ ncalls' = ncalls + 1
    /\ pc' = [pc EXCEPT ![p] = "ls_read"]
    /\ \E files \in Listings :
          loc' = [loc EXCEPT ![p] = [NoLocals EXCEPT
                    !.op = "listActiveSessions",
                    !.sweep = <<[files |-> files, sessions |-> <<>>]>>]]
    /\ UNCHANGED <<now, fsVars, hist>>

\* for (const file of files): readFileSync, JSON.parse and the status test;
\* return sessions after the last file
LsRead(p) ==
    /\ pc[p] = "ls_read"
    /\ IF loc[p].sweep[1].files = <<>>
       THEN Return(p, loc[p].sweep[1].sessions)
       ELSE LET md == readSessionMetadata(SweepFile(p))
            IN IF md = <<>>
               THEN SkipInvalid(p) /\ UNCHANGED pc
               ELSE IF IsActive(md[1])
               THEN /\ Goto(p, "ls_rsm")
                    /\ loc' = [loc EXCEPT ![p].md = md]
               ELSE SweepNext(p) /\ UNCHANGED pc
    /\ UNCHANGED <<now, fsVars, ncalls, hist>>

\* const session = readSession(metadata.id): the metadata
LsSessionMeta(p) ==
    /\ pc[p] = "ls_rsm"
    /\ LET md == readSessionMetadata(loc[p].md[1].id)
       IN IF md = <<>>
          THEN SweepNext(p) /\ Goto(p, "ls_read")
          ELSE Goto(p, "ls_rso") /\ loc' = [loc EXCEPT ![p].obs = md]
    /\ UNCHANGED <<now, fsVars, ncalls, hist>>

\* readSession: the observations; if (session) sessions.push(session)
LsSessionObs(p) ==
    /\ pc[p] = "ls_rso"
    /\ LET session == SessionOf(loc[p].obs[1], readObservations(loc[p].md[1].id))
       IN loc' = [loc EXCEPT ![p].sweep[1].sessions = Append(@, session),
                             ![p].sweep[1].files = Tail(@),
                             ![p].md = <<>>, ![p].obs = <<>>]
    /\ Goto(p, "ls_read")
    /\ UNCHANGED <<now, fsVars, ncalls, hist>>

\* Process 1 starts sessions, each id once, and ends sessions; then process
\* 3 lists the active sessions.
NextList ==
    \/ Tick
    \/ /\ loc[3].op = "none"
       /\ \/ \E s \in Sessions :
                /\ ~Exists(meta[FileKey(s)])
                /\ tmp[1] = NoFile
                /\ CallStartSession(1, s, 1)
          \/ \E s \in Sessions, e \in EndTypes : CallEndSession(1, s, e)
          \/ TmpCreate(1)
          \/ TmpWrite(1)
          \/ Rename(1)
          \/ EndRead(1)
          \/ ReadSessionMeta(1)
          \/ ReadSessionObs(1)
          \/ Idle(1) /\ CallListActiveSessions(3)
    \/ LsRead(3)
    \/ LsSessionMeta(3)
    \/ LsSessionObs(3)

SpecList == EmptyDir /\ [][NextList]_vars

\* The sessions whose stored metadata has status 'active'.
StoredActive ==
    {s \in Sessions : Exists(meta[s]) /\ Content(meta[s])[1].status = "active"}

\* C28: after any sequence of startSession calls with distinct ids and of
\* endSession calls, listActiveSessions returns exactly the sessions whose
\* stored metadata has status 'active', each once, as readSession gives them.
C28_ListsExactlyActive ==
    (Idle(3) /\ loc[3].op = "listActiveSessions") =>
        /\ {loc[3].ret[i].id : i \in 1..Len(loc[3].ret)} = StoredActive
        /\ Len(loc[3].ret) = Cardinality(StoredActive)
        /\ \A i \in 1..Len(loc[3].ret) :
              loc[3].ret[i] = SessionOf(Content(meta[loc[3].ret[i].id])[1],
                                        readObservations(loc[3].ret[i].id))

\* Two sessions were started and the first one ended; the list holds the
\* second alone.
C28_Witness ==
    /\ Idle(3) /\ loc[3].op = "listActiveSessions"
    /\ Exists(meta["s1"]) /\ Content(meta["s1"])[1].status = "completed"
    /\ StoredActive = {"s2"}
    /\ Len(loc[3].ret) = 1
    /\ loc[3].ret[1].id = "s2"

\* ------------------------------------------------------- a session ended
\* Start times of s1, in ms before the run begins: the session is ended 20 s
\* to 95 s after its start, on both sides of half a minute and of a minute
\* and a half.
StartTimes == {0, 0 - 20000, 0 - 25000, 0 - 29999, 0 - 80000, 0 - 85000}

\* s1 was started at one of the start times; s2 is unknown.
StartedEarlier ==
    /\ now = 0
    /\ \E t \in StartTimes :
          meta = [s \in Sessions |-> IF s = "s1" THEN StartedAt(s, t) ELSE NoFile]
    /\ log = [s \in Sessions |-> NoFile]
    /\ lock = [s \in Sessions |-> [n \in LockNames |-> NoFile]]
    /\ pending = [s \in Sessions |-> NoFile]
    /\ tmp = [p \in Procs |-> NoFile]
    /\ pc = [p \in Procs |-> "idle"]
    /\ loc = [p \in Procs |-> NoLocals]
    /\ ncalls = 0
    /\ hist = NoHistory

\* endSession is called once, on s1 or on the unknown s2.
NextEnd ==
    \/ Tick
    \/ \E s \in Sessions, e \in EndTypes :
          loc[1].op = "none" /\ CallEndSession(1, s, e)
    \/ EndRead(1)
    \/ TmpCreate(1)
    \/ TmpWrite(1)
    \/ Rename(1)
    \/ ReadSessionMeta(1)
    \/ ReadSessionObs(1)

SpecEnd == StartedEarlier /\ [][NextEnd]_vars

\* endSession of process p has returned.
EndReturned(p) == Idle(p) /\ loc[p].op = "endSession"

\* d is (end - start) / 60000 rounded to the nearest whole number, a half
\* going up.
NearestMinute(d, start, end) ==
    /\ 60000 * d - 30000 <= end - start
    /\ end - start < 60000 * d + 30000

\* C29: endSession on an active session stores status 'stopped' for the end
\* type 'stop' and 'completed' for 'end', an endTime, and durationMinutes =
\* (endTime - startTime) / 60000 rounded to the nearest whole minute, and
\* returns that session; on an unknown id it returns null and creates no file.
C29_EndSessionStamps ==
    EndReturned(1) =>
        LET s == loc[1].sid
        IN IF ~Exists(loc[1].pre)
           THEN /\ loc[1].ret = <<>>
                /\ ~Exists(meta[s]) /\ ~Exists(log[s]) /\ ~Exists(pending[s])
                /\ \A n \in LockNames : ~Exists(lock[s][n])
                /\ \A p \in Procs : ~Exists(tmp[p])
           ELSE LET md == Content(meta[s])[1]
                    was == Content(loc[1].pre)[1]
                IN /\ md.status = IF loc[1].kind = "stop" THEN "stopped" ELSE "completed"
                   /\ md.endTime # NoTime
                   /\ md.endTime >= 0 /\ md.endTime <= now
                   /\ md.startTime = was.startTime
                   /\ NearestMinute(md.durationMinutes, md.startTime, md.endTime)
                   /\ loc[1].ret = <<SessionOf(md, <<>>)>>

\* A session ended 'stop' exactly a minute and a half after its start has
\* durationMinutes 2.
C29_Witness ==
    /\ EndReturned(1)
    /\ Exists(loc[1].pre)
    /\ loc[1].kind = "stop"
    /\ Content(meta["s1"])[1].endTime - Content(meta["s1"])[1].startTime = 90000
    /\ Content(meta["s1"])[1].durationMinutes = 2
    /\ loc[1].ret[1].status = "stopped"

\* endSession on the unknown s2 has returned null.
C29_WitnessUnknown ==
    /\ EndReturned(1)
    /\ loc[1].sid = "s2"
    /\ loc[1].ret = <<>>

\* ------------------------------------------- observations that are refused
\* Two processes call addObservation on sessions that are absent, active,
\* completed or stopped; nothing else runs, so a session stays what it was.
NextRefuse ==
    \/ Tick
    \/ \E p \in Appenders :
          \/ \E s \in Sessions : CallAddObservation(p, s)
          \/ AppendStep(p)

\* Each session is absent, active, completed or stopped; one that exists may
\* have a log already.
OpenOrClosedDir ==
    /\ now = 0
    /\ meta \in [Sessions -> {NoFile} \cup {StartedAt(s, 0) : s \in Sessions}
                                     \cup {EndedAt(s, 0, status) :
                                              s \in Sessions,
                                              status \in {"completed", "stopped"}}]
    /\ \A s \in Sessions :
          Exists(meta[s]) => Content(meta[s])[1].id = s
    /\ log \in [Sessions -> {NoFile, LoggedAt(9, 0)}]
    /\ \A s \in Sessions : ~Exists(meta[s]) => ~Exists(log[s])
    /\ lock = [s \in Sessions |-> [n \in LockNames |-> NoFile]]
    /\ pending = [s \in Sessions |-> NoFile]
    /\ tmp = [p \in Procs |-> NoFile]
    /\ pc = [p \in Procs |-> "idle"]
    /\ loc = [p \in Procs |-> NoLocals]
    /\ ncalls = 0
    /\ hist = NoHistory

SpecRefuse == OpenOrClosedDir /\ [][NextRefuse]_vars

\* Process p is in addObservation, or has returned from it, on a session
\* that is absent, completed or stopped.
OnClosedSession(p) ==
    /\ loc[p].op = "addObservation"
    /\ loc[p].sid \notin StoredActive

\* C30: addObservation on a session that is absent, completed or stopped
\* returns false without reaching the lock or the log: no step changes the
\* log or a lock marker of such a session, and the call goes from the
\* metadata read straight to the return of false.
C30_ClosedSessionRefused ==
    /\ [][\A s \in Sessions \ StoredActive :
             log'[s] = log[s] /\ lock'[s] = lock[s]]_vars
    /\ [](\A p \in Appenders : OnClosedSession(p) =>
             /\ ~AcquiringOrHolding(p)
             /\ ~loc[p].got
             /\ Idle(p) => loc[p].ret = <<FALSE>>)

\* addObservation has returned false on a stopped session that has no log
\* file, and on an absent one, while the other session took an observation.
C30_Witness ==
    /\ Idle(1) /\ loc[1].op = "addObservation" /\ loc[1].ret = <<FALSE>>
    /\ Exists(meta[loc[1].sid])
    /\ Content(meta[loc[1].sid])[1].status = "stopped"
    /\ ~Exists(log[loc[1].sid])
    /\ hist.failObs # {}
    /\ hist.okObs # {}

\* ------------------------------------------------ counters of a session read
\* readSession's loop over the observations.  Here a log line is a valid
\* record given by what the loop looks at: its type, isError and data.path
\* ("" for an empty or missing path).
ObsTypes == {"file_edit", "command", "error", "other"}
Paths == {"", "a", "b"}

Records ==
    [type : {"file_edit"}, isError : BOOLEAN, path : Paths]
    \cup [type : ObsTypes \ {"file_edit"}, isError : BOOLEAN, path : {""}]

RecordLogs == UNION {[1..k -> Records] : k \in 0..MaxLines}

\* Session s1 is active and has no log, or a log of valid records.
RecordsLogged ==
    /\ now = 0
    /\ meta = [s \in Sessions |-> IF s = "s1" THEN StartedAt(s, 0) ELSE NoFile]
    /\ \E l \in RecordLogs :
          log = [s \in Sessions |-> IF s = "s1" /\ l # <<>> THEN File(l, 0) ELSE NoFile]
    /\ lock = [s \in Sessions |-> [n \in LockNames |-> NoFile]]
    /\ pending = [s \in Sessions |-> NoFile]
    /\ tmp = [p \in Procs |-> NoFile]
    /\ pc = [p \in Procs |-> "idle"]
    /\ loc = [p \in Procs |-> NoLocals]
    /\ ncalls = 0
    /\ hist = NoHistory

\* addObservation(s, record) from its call to its return true when no other
\* process is in a call: the metadata is active, the lock is free, the line
\* is appended and the lock released.
AddObservationAlone(s, record) ==
    /\ \A p \in Procs : Idle(p)
    /\ ~Refused(readSessionMetadata(s))
    /\ \A n \in LockNames : ~Exists(lock[FileKey(s)][n])
    /\ LET f == log[FileKey(s)]
           lines == IF Exists(f) THEN Content(f) ELSE <<>>
       IN /\ Len(lines) < MaxLines
          /\ log' = [log EXCEPT ![FileKey(s)] = File(Append(lines, record), now)]
    /\ UNCHANGED <<now, meta, lock, pending, tmp, pc, loc, ncalls, hist>>

\* readSession(sessionId), its loop taken one observation at a time
CallReadSessionCounting(p, s) ==
    /\ Budget
    /\ Begin(p, "readSession", s, 0, "rc_meta")
    /\ UNCHANGED <<now, fsVars, hist>>

\* const metadata = readSessionMetadata(sessionId); if (!metadata) return null
RcMeta(p) ==
    /\ pc[p] = "rc_meta"
    /\ LET md == readSessionMetadata(loc[p].sid)
       IN IF md = <<>>
          THEN Return(p, <<>>)
          ELSE Goto(p, "rc_obs") /\ loc' = [loc EXCEPT ![p].md = md]
    /\ UNCHANGED <<now, fsVars, ncalls, hist>>

\* const observations = readObservations(sessionId): every line is a valid
\* record here; new Set(), commandsRun = 0, errorsEncountered = 0
RcObs(p) ==
    /\ pc[p] = "rc_obs"
    /\ LET f == log[FileKey(loc[p].sid)]
       IN loc' = [loc EXCEPT ![p].obs = IF Exists(f) THEN Content(f) ELSE <<>>,
                             ![p].cnt = 1, ![p].files = <<>>,
                             ![p].commands = 0, ![p].errors = 0]
    /\ Goto(p, "rc_loop")
    /\ UNCHANGED <<now, fsVars, ncalls, hist>>

\* fault injection: only the type makes an error
TypeIsError(obs) == obs.type = "error"

\* if (obs.type === 'error' || obs.isError)
CountsAsError(obs) == obs.type = "error" \/ obs.isError

\* filesModified.add(filePath) on a Set, listed by Array.from in insertion order
SetAdd(files, filePath) ==
    IF \E i \in 1..Len(files) : files[i] = filePath THEN files
    ELSE Append(files, filePath)

\* one turn of for (const obs of observations), then the Session returned
RcLoop(p) ==
    /\ pc[p] = "rc_loop"
    /\ LET i == loc[p].cnt
           md == loc[p].md[1]
       IN IF i > Len(loc[p].obs)
          THEN Return(p, <<[id |-> md.id, project |-> md.project,
                            projectPath |-> md.projectPath,
                            startTime |-> md.startTime, endTime |-> md.endTime,
                            durationMinutes |-> md.durationMinutes,
                            status |-> md.status, summary |-> md.summary,
                            observations |-> loc[p].obs,
                            filesModified |-> loc[p].files,
                            commandsRun |-> loc[p].commands,
                            errorsEncountered |-> loc[p].errors]>>)
          ELSE LET obs == loc[p].obs[i]
               IN /\ loc' = [loc EXCEPT
                       ![p].cnt = i + 1,
                       ![p].files = IF obs.type = "file_edit" /\ obs.path # ""
                                    THEN SetAdd(@, obs.path) ELSE @,
                       ![p].commands = IF obs.type = "command" THEN @ + 1 ELSE @,
                       ![p].errors = IF CountsAsError(obs) THEN @ + 1 ELSE @]
                  /\ UNCHANGED pc
    /\ UNCHANGED <<now, fsVars, ncalls, hist>>

\* Observations are added, and the summary is updated once, between reads;
\* three calls are made at most.
NextCount ==
    \/ \E record \in Records : AddObservationAlone("s1", record)
    \/ ncalls < 3 /\ CallReadSessionCounting(3, "s1")
    \/ RcMeta(3)
    \/ RcObs(3)
    \/ RcLoop(3)
    \/ Idle(3) /\ loc[2].op = "none" /\ CallUpdateSessionSummary(2, "s1", 1)
    \/ UpdRead(2)
    \/ TmpCreate(2)
    \/ TmpWrite(2)
    \/ Rename(2)

SpecCount == RecordsLogged /\ [][NextCount]_vars

\* the records of the log of s
Logged(s) == IF Exists(log[s]) THEN Content(log[s]) ELSE <<>>

CounterNames == {"filesModified", "commandsRun", "errorsEncountered"}

\* C31: a readSession returns the counters of the log as it is at that read:
\* commandsRun is the number of 'command' observations, errorsEncountered the
\* number with type 'error' or isError set, filesModified the distinct
\* non-empty paths of the 'file_edit' observations; the metadata file holds
\* no counter.
C31_CountersDerivedFromLog ==
    /\ [][(pc[3] = "rc_loop" /\ pc'[3] = "idle") =>
            LET r == loc'[3].ret[1]
                obs == Logged("s1")
                at(P(_)) == {i \in 1..Len(obs) : P(obs[i])}
                edited == {obs[i].path : i \in at(LAMBDA o : o.type = "file_edit")} \ {""}
            IN /\ r.observations = obs
               /\ r.commandsRun = Cardinality(at(LAMBDA o : o.type = "command"))
               /\ r.errorsEncountered =
                     Cardinality(at(LAMBDA o : o.type = "error" \/ o.isError))
               /\ Range(r.filesModified) = edited
               /\ Len(r.filesModified) = Cardinality(edited)]_vars
    /\ [](\A s \in Sessions : Exists(meta[s]) /\ Content(meta[s]) # <<>> =>
             DOMAIN Content(meta[s])[1] \cap CounterNames = {})

\* After a read and an update of the summary, a read has returned the
\* counters of a log of three records: one command, two errors (one of them
\* by isError alone), one path edited.
C31_Witness ==
    /\ Idle(3) /\ loc[3].op = "readSession" /\ ncalls = 3
    /\ loc[3].ret # <<>>
    /\ loc[3].ret[1].commandsRun = 1
    /\ loc[3].ret[1].errorsEncountered = 2
    /\ loc[3].ret[1].filesModified = <<"a">>
    /\ Len(loc[3].ret[1].observations) = 3
    /\ loc[3].ret[1].summary = 1
    /\ Len(Logged("s1")) = 3
    /\ \E i \in 1..3 : /\ Logged("s1")[i].type # "error"
                       /\ Logged("s1")[i].isError

\* ------------------------------------------------ no counter file means zero
\* Process p is inside fs.writeFileSync on the counter file of s: the file
\* is truncated and the number is not written yet.
WritingCounter(p, s) == pc[p] = "cnt_write" /\ FileKey(loc[p].sid) = s

\* C32: while no process is inside a write of the counter file, the file, if
\* it exists, holds an integer >= 1; no call ever writes a number below 1,
\* and a markBackgroundJobCompleted that reads 1 or less (an absent file
\* reads 0) goes on to delete the file, which is then absent.
C32_NoFileIsZero ==
    /\ [](\A s \in Sessions :
             (Exists(pending[s]) /\ \A p \in Procs : ~WritingCounter(p, s)) =>
                /\ Content(pending[s]) # <<>>
                /\ Content(pending[s])[1] >= 1)
    /\ [](\A p \in Procs :
             pc[p] \in {"cnt_trunc", "cnt_write"} => loc[p].cnt >= 1)
    /\ [][\A p \in Procs :
             /\ (/\ pc[p] = "cnt_read" /\ pc'[p] # "cnt_read"
                 /\ loc[p].op = "markBackgroundJobCompleted"
                 /\ CounterValue(FileKey(loc[p].sid)) <= 1)
                   => pc'[p] = "cnt_unlink"
             /\ (pc[p] = "cnt_unlink" /\ pc'[p] # "cnt_unlink")
                   => ~Exists(pending'[FileKey(loc[p].sid)])]_vars

\* A markBackgroundJobCompleted found the counter at 1 and has deleted the
\* file; every decrement so far found a counter of at least 1.
C32_Witness ==
    /\ \E p \in Procs :
          /\ pc[p] = "cnt_rel"
          /\ loc[p].op = "markBackgroundJobCompleted"
    /\ ~Exists(pending["s1"])
    /\ hist.started >= 1
    /\ ~hist.underflow

\* ------------------------------------------------- the barrier of session end
\* The pre-compact hook of process p: markBackgroundJobStarted, after which
\* it spawns the background job, which runs as process p as well.
ScriptHookStarted(p) ==
    /\ loc[p].op = "none"
    /\ Begin(p, "markBackgroundJobStarted", "s1", 0, "acq_open")
    /\ hist' = [hist EXCEPT !.started = @ + 1]
    /\ UNCHANGED <<now, fsVars>>

\* The job wrote its knowledge note: updatePreCompactKnowledge(session_id,
\* knowledgePaths), the path of job p being p.
ScriptJobKnowledge(p) ==
    /\ Idle(p)
    /\ loc[p].op = "markBackgroundJobStarted"
    /\ Begin(p, "updatePreCompactKnowledge", "s1", p, "upd_read")
    /\ UNCHANGED <<now, fsVars, hist>>

\* ... and then markBackgroundJobCompleted(session_id)
ScriptJobCompleted(p) ==
    /\ Idle(p)
    /\ loc[p].op = "updatePreCompactKnowledge"
    /\ Begin(p, "markBackgroundJobCompleted", "s1", 0, "acq_open")
    /\ hist' = [hist EXCEPT !.completed = @ + 1]
    /\ UNCHANGED <<now, fsVars>>

\* the jobs whose hook has returned from markBackgroundJobStarted
HookDone == {q \in Jobs : loc[q].op # "none"
                          /\ ~(loc[q].op = "markBackgroundJobStarted" /\ Running(q))}

\* The session-end hook calls getPreCompactKnowledge once.
ScriptGetKnowledge(p) ==
    /\ loc[p].op = "none"
    /\ Begin(p, "getPreCompactKnowledge", "s1", 0, "wait")
    /\ hist' = [hist EXCEPT !.before = {<<q, p>> : q \in HookDone}]
    /\ UNCHANGED <<now, fsVars>>

NextBarrier ==
    \/ Tick
    \/ \E p \in Jobs :
          \/ ScriptHookStarted(p)
          \/ ScriptJobKnowledge(p)
          \/ ScriptJobCompleted(p)
          \/ AcqOpen(p)
          \/ AcqStat(p)
          \/ AcqUnlink(p)
          \/ CntRead(p)
          \/ CntTrunc(p)
          \/ CntWrite(p)
          \/ CntUnlink(p)
          \/ CntRelease(p)
          \/ UpdRead(p)
          \/ TmpCreate(p)
          \/ TmpWrite(p)
          \/ Rename(p)
    \/ \E p \in Enders :
          \/ ScriptGetKnowledge(p)
          \/ WaitPending(p)
          \/ GpkRead(p)

SpecBarrier == Started /\ [][NextBarrier]_vars

\* C33: when the wait of getPreCompactKnowledge ended on a counter read of
\* zero (not on maxWaitMs), the list returned holds the path of every job
\* whose hook had returned from markBackgroundJobStarted when the wait began.
C33_BarrierOrdering ==
    [][\A p \in Enders :
          (pc[p] = "gpk_read" /\ pc'[p] = "idle" /\ ~loc[p].expired) =>
             \A q \in Jobs :
                <<q, p>> \in hist.before => q \in Range(loc'[p].ret[1])]_vars

\* C33 restricted to the runs in which every counter update got its lock and
\* no lock marker grew older than LOCK_TIMEOUT_MS.
C33_BarrierOrderingTimely ==
    [][\A p \in Enders :
          (/\ pc[p] = "gpk_read" /\ pc'[p] = "idle" /\ ~loc[p].expired
           /\ ~hist.skipped /\ ~hist.overheld) =>
             \A q \in Jobs :
                <<q, p>> \in hist.before => q \in Range(loc'[p].ret[1])]_vars

\* --------------------------------------------------- the background job
\* main() of background-summarize.ts with trigger 'pre-compact', run by the
\* process whose hook spawned it.  loc[p].kind is the place in main: the
\* check the job is at, "store", "final", or "catch".
Checks == <<"transcript", "turns", "context", "ai">>

CheckNames == {Checks[i] : i \in 1..Len(Checks)}

\* the place after check k
After(k) ==
    IF k = "ai" THEN "store"
    ELSE Checks[1 + CHOOSE i \in 1..Len(Checks) : Checks[i] = k]

\* The job is in main at place k, between two calls of the store.
AtPlace(p, k) == Idle(p) /\ loc[p].op = "main" /\ loc[p].kind = k

InMain(p, k) == [NoLocals EXCEPT !.op = "main", !.kind = k]

\* the job calls markBackgroundJobCompleted(input.session_id) at place k
JobCompletes(p, k) ==
    /\ pc' = [pc EXCEPT ![p] = "acq_open"]
    /\ loc' = [loc EXCEPT ![p] = [NoLocals EXCEPT !.op = "markBackgroundJobCompleted",
                                                  !.sid = "s1", !.kind = k]]
    /\ ncalls' = ncalls + 1
    /\ hist' = [hist EXCEPT !.completed = @ + 1, !.calls = @ \cup {<<p, k>>}]
    /\ UNCHANGED <<now, fsVars>>

\* The hook has returned from markBackgroundJobStarted and spawned the job,
\* which enters the try block of main.
JobMain(p) ==
    /\ Idle(p)
    /\ loc[p].op = "markBackgroundJobStarted"
    /\ loc' = [loc EXCEPT ![p] = InMain(p, "transcript")]
    /\ UNCHANGED <<now, fsVars, pc, ncalls, hist>>

\* The transcript exists, has turns, the context is long enough, the AI
\* result is not empty: main goes on.
JobPasses(p) ==
    /\ \E k \in CheckNames :
          /\ AtPlace(p, k)
          /\ loc' = [loc EXCEPT ![p] = InMain(p, After(k))]
    /\ UNCHANGED <<now, fsVars, pc, ncalls, hist>>

\* The check fails: markBackgroundJobCompleted, then process.exit.
JobFails(p) ==
    \E k \in CheckNames : AtPlace(p, k) /\ JobCompletes(p, k)

\* parseTranscript, runClaudeP or the writing of the notes throws: the catch
\* block of main is entered.
JobThrows(p) ==
    /\ \E k \in {"turns", "context", "ai", "store"} : AtPlace(p, k)
    /\ loc' = [loc EXCEPT ![p] = InMain(p, "catch")]
    /\ UNCHANGED <<now, fsVars, pc, ncalls, hist>>

\* catch (error): markBackgroundJobCompleted, then process.exit(1)
JobCatch(p) ==
    AtPlace(p, "catch") /\ JobCompletes(p, "catch")

\* knowledgePaths.length > 0: updatePreCompactKnowledge(session_id, paths),
\* the path of job p being p; or no note was written
JobStore(p) ==
    /\ AtPlace(p, "store")
    /\ \/ /\ pc' = [pc EXCEPT ![p] = "upd_read"]
          /\ loc' = [loc EXCEPT ![p] = [NoLocals EXCEPT
                                           !.op = "updatePreCompactKnowledge",
                                           !.sid = "s1", !.arg = p, !.kind = "store"]]
          /\ ncalls' = ncalls + 1
       \/ /\ loc' = [loc EXCEPT ![p] = InMain(p, "final")]
          /\ UNCHANGED <<pc, ncalls>>
    /\ UNCHANGED <<now, fsVars, hist>>

\* the end of the try block: markBackgroundJobCompleted(input.session_id)
JobFinal(p) ==
    /\ \/ AtPlace(p, "final")
       \/ Idle(p) /\ loc[p].op = "updatePreCompactKnowledge"
    /\ JobCompletes(p, "final")

\* fault injection: process.exit returns and main goes on after the check
ExitReturns(k) == IF k \in CheckNames THEN After(k) ELSE "exited"

\* process.exit ends the process
ProcessExit(k) == "exited"

\* markBackgroundJobCompleted has returned: process.exit after a failed
\* check and in the catch block, the end of main after the last call
JobExit(p) ==
    /\ Idle(p)
    /\ loc[p].op = "markBackgroundJobCompleted"
    /\ LET k == IF loc[p].kind = "final" THEN "exited" ELSE ProcessExit(loc[p].kind)
       IN loc' = [loc EXCEPT ![p] = IF k = "exited"
                                    THEN [NoLocals EXCEPT !.op = "exited",
                                                          !.kind = loc[p].kind]
                                    ELSE InMain(p, k)]
    /\ UNCHANGED <<now, fsVars, pc, ncalls, hist>>

JobStep(p) ==
    \/ JobMain(p)
    \/ JobPasses(p)
    \/ JobFails(p)
    \/ JobThrows(p)
    \/ JobCatch(p)
    \/ JobStore(p)
    \/ JobFinal(p)
    \/ JobExit(p)

\* Two pre-compact hooks and the jobs they spawn.
NextSummarize ==
    \/ Tick
    \/ \E p \in Jobs :
          \/ ScriptHookStarted(p)
          \/ JobStep(p)
          \/ AcqOpen(p)
          \/ AcqStat(p)
          \/ AcqUnlink(p)
          \/ CntRead(p)
          \/ CntTrunc(p)
          \/ CntWrite(p)
          \/ CntUnlink(p)
          \/ CntRelease(p)
          \/ UpdRead(p)
          \/ TmpCreate(p)
          \/ TmpWrite(p)
          \/ Rename(p)

SpecSummarize == Started /\ [][NextSummarize]_vars

\* Job p has ended.
Exited(p) == loc[p].op = "exited"

\* the calls of markBackgroundJobCompleted job p has made
CallsOf(p) == {c \in hist.calls : c[1] = p}

NextKnowledge ==
    \/ Tick
    \/ \E p \in Updaters :
          \/ CallUpdatePreCompactKnowledge(p, "s1")
          \/ CallUpdateSessionSummary(p, "s1", 1)
          \/ UpdRead(p)
    \/ \E p \in Hooks :
          \/ \E e \in EndTypes : CallEndSession(p, "s1", e)
          \/ EndRead(p)
          \/ ReadSessionMeta(p)
          \/ ReadSessionObs(p)
    \/ \E p \in Procs :
          \/ TmpCreate(p)
          \/ TmpWrite(p)
          \/ Rename(p)

SpecKnowledge == Started /\ [][NextKnowledge]_vars

\* the knowledge paths stored for s
StoredPaths(s) ==
    IF readSessionMetadata(s) = <<>> THEN <<>>
    ELSE readSessionMetadata(s)[1].preCompactKnowledge

\* C35: the stored list of knowledge paths only grows: every step leaves the
\* paths stored before it in place, at the front of the list, and an
\* updatePreCompactKnowledge that returns true leaves its path in the list.
C35_KnowledgeAccumulates ==
    [][/\ \A s \in Sessions :
             /\ Len(StoredPaths(s)') >= Len(StoredPaths(s))
             /\ SubSeq(StoredPaths(s)', 1, Len(StoredPaths(s))) = StoredPaths(s)
       /\ \A p \in Updaters :
             (/\ loc[p].op = "updatePreCompactKnowledge"
              /\ Running(p) /\ Idle(p)' /\ loc'[p].ret = <<TRUE>>)
                => loc[p].arg \in Range(StoredPaths(loc[p].sid)')]_vars

\* ------------------------------------------------- malformed metadata
\* a metadata file whose content JSON.parse rejects, last written at time t
Unparsable(t) == File(<<>>, t)

Malformed(f) == Exists(f) /\ Content(f) = <<>>

\* The directory holds at least one malformed metadata file; the other
\* session is absent, active or ended, old or new; a session that has a
\* metadata file has an old log or none.
MalformedDir ==
    /\ now = 0
    /\ meta \in [Sessions -> UNION {MetadataFound(s) : s \in Sessions}
                                 \cup {Unparsable(t) : t \in Ages}]
    /\ \A s \in Sessions : meta[s] \in MetadataFound(s) \/ Malformed(meta[s])
    /\ \E s \in Sessions : Malformed(meta[s])
    /\ log \in [Sessions -> {NoFile, LoggedAt(9, 0 - HourMs - TickMs)}]
    /\ \A s \in Sessions : ~Exists(meta[s]) => ~Exists(log[s])
    /\ lock = [s \in Sessions |-> [n \in LockNames |-> NoFile]]
    /\ pending = [s \in Sessions |-> NoFile]
    /\ tmp = [p \in Procs |-> NoFile]
    /\ pc = [p \in Procs |-> "idle"]
    /\ loc = [p \in Procs |-> NoLocals]
    /\ ncalls = 0
    /\ hist = NoHistory

\* Process 3 reads sessions, lists the active sessions and sweeps.
NextMalformed ==
    \/ Tick
    \/ \E s \in Sessions : CallReadSession(3, s)
    \/ Budget /\ CallListActiveSessions(3)
    \/ \E h \in MaxAgeHours : CallCleanupStaleSessions(3, h)
    \/ ReadSessionMeta(3)
    \/ ReadSessionObs(3)
    \/ LsRead(3)
    \/ LsSessionMeta(3)
    \/ LsSessionObs(3)
    \/ CsRead(3)
    \/ CsStatMeta(3)
    \/ CsStatObs(3)
    \/ CsSessionMeta(3)
    \/ CsSessionObs(3)
    \/ CsClear(3)
    \/ WaitPending(3)
    \/ AcqOpen(3)
    \/ ClrMeta(3)
    \/ ClrObs(3)
    \/ ClrPending(3)
    \/ ClrPendingLock(3)
    \/ ClrFinally(3)

SpecMalformed == MalformedDir /\ [][NextMalformed]_vars

\* the sessions whose metadata file parses
Parsed == {s \in Sessions : Exists(meta[s]) /\ ~Malformed(meta[s])}

\* C36: in a directory with a malformed metadata file, readSession of that
\* session returns null; listActiveSessions returns exactly the sessions
\* whose metadata parses and has status 'active'; cleanupStaleSessions
\* leaves no parsed session that was stale already when the run began,
\* every session it returns is removed, and the malformed file stays.
C36_MalformedNeverFatal ==
    /\ (Idle(3) /\ loc[3].op = "readSession" /\ Malformed(meta[loc[3].sid]))
          => loc[3].ret = <<>>
    /\ (Idle(3) /\ loc[3].op = "listActiveSessions")
          => /\ {loc[3].ret[i].id : i \in 1..Len(loc[3].ret)}
                   = {s \in Parsed : IsActive(Content(meta[s])[1])}
             /\ Len(loc[3].ret) <= Cardinality(Parsed)
    /\ SweepReturned(3)
          => /\ \A s \in Parsed :
                   ~StaleAt(0, LastActivity(Mtime(meta[s]), log[s]), HourMs)
             /\ \A i \in 1..Len(loc[3].ret) : loc[3].ret[i].id \notin Parsed
    /\ \E s \in Sessions : Malformed(meta[s])

\* Next to the malformed file of s1, the sweep has returned the stale
\* session s2 and removed its metadata; the file of s1 is still there.
C36_Witness ==
    /\ SweepReturned(3)
    /\ Malformed(meta["s1"])
    /\ Len(loc[3].ret) = 1
    /\ loc[3].ret[1].id = "s2"
    /\ loc[3].ret[1].status = "stopped"
    /\ ~Exists(meta["s2"])

\* ------------------------------------------------- reclaiming a stale marker
\* Process 3 was killed holding the observation lock of the started session
\* s1; its marker is older than LOCK_TIMEOUT_MS when the run begins.
HolderCrashed ==
    /\ now = 0
    /\ meta = [s \in Sessions |->
                 IF s = "s1" THEN File(<<NewMetadata("s1", 1)>>, 0) ELSE NoFile]
    /\ log = [s \in Sessions |-> NoFile]
    /\ lock = [s \in Sessions |-> [n \in LockNames |->
                 IF s = "s1" /\ n = "lock" THEN File(<<3>>, 0 - 2 * TickMs) ELSE NoFile]]
    /\ pending = [s \in Sessions |-> NoFile]
    /\ tmp = [p \in Procs |-> NoFile]
    /\ pc = [p \in Procs |-> IF p = 3 THEN "dead" ELSE "idle"]
    /\ loc = [p \in Procs |->
                IF p = 3 THEN [NoLocals EXCEPT !.op = "addObservation", !.got = TRUE]
                ELSE NoLocals]
    /\ ncalls = 0
    /\ hist = [NoHistory EXCEPT !.passed = {NewMetadata("s1", 1)}]

SpecReclaim == HolderCrashed /\ [][NextAppend]_vars

\* C37: the unlink of an acquirer that found a marker stale removes only a
\* marker older than LOCK_TIMEOUT_MS, and while no live holder has had the
\* lock for longer than that, at most one process holds it.
C37_ReclaimRemovesOnlyStale ==
    /\ [][\A p \in Procs :
             (/\ pc[p] = "acq_unlink" /\ pc'[p] # "acq_unlink"
              /\ Exists(lock[FileKey(loc[p].sid)][LockOf(loc[p].op)]))
                => IsStale(now - Mtime(lock[FileKey(loc[p].sid)][LockOf(loc[p].op)]))]_vars
    /\ [](now <= LOCK_TIMEOUT_MS =>
             \A s \in Sessions, n \in LockNames : Cardinality(Holders(s, n)) <= 1)

\* ------------------------------------------------- who deletes a marker
\* C38: a marker that a live process holds is deleted only by a step of the
\* process that created it or by the unlink of an acquirer that found a
\* marker stale; no release by another process and no step of
\* clearSessionFile deletes it.
C38_MarkerDeletedByOwnerOrReclaimer ==
    [][\A s \in Sessions, n \in LockNames :
          LET owner == Content(lock[s][n])[1]
          IN  (/\ Exists(lock[s][n])
               /\ ~Exists(lock'[s][n])
               /\ owner \in Holders(s, n))
                 => \/ pc'[owner] # pc[owner]
                    \/ \E p \in Procs : pc[p] = "acq_unlink" /\ pc'[p] # pc[p]]_vars

\* ------------------------------------------------- a cleared session
\* The hook appends to and ends s1, the background job updates its summary
\* and knowledge, and the session-end process clears it; startSession is
\* never called.
NextCleared ==
    \/ Tick
    \/ \E p \in Hooks :
          \/ CallAddObservation(p, "s1")
          \/ \E e \in EndTypes : CallEndSession(p, "s1", e)
          \/ AddRead(p)
          \/ EndRead(p)
          \/ AppendFirst(p)
          \/ AppendRest(p)
          \/ AppendRelease(p)
    \/ \E p \in Updaters :
          \/ CallUpdatePreCompactKnowledge(p, "s1")
          \/ CallUpdateSessionSummary(p, "s1", 1)
          \/ UpdRead(p)
    \/ \E p \in Enders :
          \/ CallClearSessionFile(p, "s1")
          \/ WaitPending(p)
          \/ ClrMeta(p)
          \/ ClrObs(p)
          \/ ClrPending(p)
          \/ ClrPendingLock(p)
          \/ ClrFinally(p)
    \/ \E p \in Procs :
          \/ AcqOpen(p)
          \/ AcqStat(p)
          \/ AcqUnlink(p)
          \/ TmpCreate(p)
          \/ TmpWrite(p)
          \/ Rename(p)

SpecCleared == Started /\ [][NextCleared]_vars

\* clearSessionFile(s) has returned and its caller has made no call since
ClearReturned(s) ==
    \E p \in Enders :
        pc[p] = "idle" /\ loc[p].op = "clearSessionFile" /\ loc[p].sid = s

\* C39: with no startSession after it, once clearSessionFile(s) has returned
\* neither the metadata file nor the observation log of s exists.
C39_ClearedStaysCleared ==
    \A s \in Sessions :
        ClearReturned(s) => ~Exists(meta[FileKey(s)]) /\ ~Exists(log[FileKey(s)])

\* ------------------------------------------------- appends after a crash
\* the observation the killed writer was appending, and one appended before
KilledObs == MaxCalls + 1
EarlierObs == MaxCalls + 2

\* Process 3 was killed in appendObservation while it held the lock of s1,
\* before its appendFileSync had written anything or after it had written
\* the first part of the line; an earlier observation may be in the log, and
\* the marker is fresh or older than LOCK_TIMEOUT_MS.
WriterKilled ==
    /\ now = 0
    /\ meta = [s \in Sessions |->
                 IF s = "s1" THEN File(<<NewMetadata("s1", 1)>>, 0) ELSE NoFile]
    /\ \E earlier \in {<<>>, FirstPiece(EarlierObs) \o RestPiece(EarlierObs)},
          fragment \in {<<>>, FirstPiece(KilledObs)} :
          log = [s \in Sessions |->
                   IF s = "s1" /\ earlier \o fragment # <<>>
                   THEN File(earlier \o fragment, 0) ELSE NoFile]
    /\ \E t \in {0, 0 - 2 * TickMs} :
          lock = [s \in Sessions |-> [n \in LockNames |->
                    IF s = "s1" /\ n = "lock" THEN File(<<3>>, t) ELSE NoFile]]
    /\ pending = [s \in Sessions |-> NoFile]
    /\ tmp = [p \in Procs |-> NoFile]
    /\ pc = [p \in Procs |-> IF p = 3 THEN "dead" ELSE "idle"]
    /\ loc = [p \in Procs |->
                IF p = 3 THEN [NoLocals EXCEPT !.op = "addObservation", !.sid = "s1",
                                               !.arg = KilledObs, !.got = TRUE]
                ELSE NoLocals]
    /\ ncalls = 0
    /\ hist = [NoHistory EXCEPT !.passed = {NewMetadata("s1", 1)}]

\* One hook process appends to s1 after the crash.
NextKilled ==
    \/ Tick
    \/ \E p \in Hooks :
          \/ CallAddObservation(p, "s1")
          \/ AddRead(p)
          \/ AcqOpen(p)
          \/ AcqStat(p)
          \/ AcqUnlink(p)
          \/ AppendFirst(p)
          \/ AppendRest(p)
          \/ AppendRelease(p)

SpecKilled == WriterKilled /\ [][NextKilled]_vars

\* a killed writer's partial record, written without its newline, is in
\* the log of s
PartialRecord(s) ==
    /\ Exists(log[FileKey(s)])
    /\ \E p \in Procs :
          /\ pc[p] = "dead"
          /\ loc[p].op = "addObservation"
          /\ loc[p].sid = s
          /\ FirstPiece(loc[p].arg)[1] \in Range(Content(log[FileKey(s)]))

\* C40: when a killed writer left a partial record in the log, every
\* observation whose addObservation has returned true since is among those
\* readSession returns.
C40_AppendsAfterCrashRead ==
    \A s \in Sessions :
        PartialRecord(s) => hist.okObs \subseteq Range(readObservations(s))

====
